---- MODULE Spec2Model ----
(***************************************************************************)
(* Lifecycle drivers of terraform-provider-mongodb (database, collection,  *)
(* index) as a state machine over the remote store and the last lifecycle  *)
(* call made by the host.                                                  *)
(***************************************************************************)
EXTENDS Integers, Sequences, FiniteSets, TLC

VARIABLES
    store,   \* the remote store
    before,  \* the store as it was when the last call started
    last,    \* the last lifecycle call and its response
    prev,    \* a summary of the call before it
    request  \* the identity text the host was asked to import (none: <<>>)

vars == <<store, before, last, prev, request>>

----------------------------------------------------------------------------
\* Bounds of the model.

NumDatabases == 2
NumCollections == 1
NumIndexes == 2

DBPool == <<"example-account", "analytics", "staging", "archive">>
CollPool == <<"users", "events", "orders", "audit">>
IdxPool == <<"users_email", "users_name", "users_age", "users_zip">>

DBNames == {DBPool[i] : i \in 1..NumDatabases}
UserCollNames == {CollPool[i] : i \in 1..NumCollections}
IdxNames == {IdxPool[i] : i \in 1..NumIndexes}

----------------------------------------------------------------------------
\* Program constants.

tfPlaceholderColl == "__tf_placeholder"

CollNames == UserCollNames \cup {tfPlaceholderColl}

----------------------------------------------------------------------------
\* Framework values: types.String / types.Bool are null or hold a value.
\* A null value is the empty sequence, a known value a one-element sequence.

StringNull == <<>>
StringValue(s) == <<s>>
ValueString(v) == IF v = <<>> THEN "" ELSE v[1]

BoolNull == <<>>
BoolValue(b) == <<b>>
ValueBool(v) == IF v = <<>> THEN FALSE ELSE v[1]

----------------------------------------------------------------------------
\* The remote store behind the shared client handle.
\*   store.collections[d][c] : the specifications the store lists for the
\*                             collection named c of database d (none when
\*                             the collection does not exist)
\*   store.indexes[d][c][i]  : likewise for the index named i

Transient == "transient failure"

\* The options document of a collection created without options.
DefaultOptions ==
    [validator |-> <<>>, validationLevel |-> <<>>, validationAction |-> <<>>,
     timeseries |-> <<>>, expireAfterSeconds |-> <<>>]

\* A collection specification as listed: Options is <<>> when the listing
\* carries no options document.
DefaultSpec == [Options |-> <<DefaultOptions>>]

EmptyStore ==
    [collections |-> [d \in DBNames |-> [c \in CollNames |-> <<>>]],
     indexes |-> [d \in DBNames |-> [c \in UserCollNames |-> [i \in IdxNames |-> <<>>]]]]

\* One store command as issued by a handler: err = "" when it succeeded.
Cmd(name, db, target, doc, err) ==
    [name |-> name, db |-> db, target |-> target, doc |-> doc, err |-> err]

CollectionNamesOf(st, db) == {c \in CollNames : st.collections[db][c] # <<>>}

ListDatabaseNamesUnfiltered(st, name) ==
    IF \E d \in DBNames : CollectionNamesOf(st, d) # {} THEN <<name>> ELSE <<>>

\* client.ListDatabaseNames(ctx, {name: n}): a database is listed when it
\* holds at least one collection.
ListDatabaseNames(st, name) ==
    IF CollectionNamesOf(st, name) # {} THEN <<name>> ELSE <<>>

\* db.ListCollectionNames(ctx, {})
ListCollectionNames(st, db) == CollectionNamesOf(st, db)

\* db.RunCommand({create: coll}): fails when the namespace exists.
RunCommandCreate(st, db, coll, faulty) ==
    IF faulty
    THEN [store |-> st, cmd |-> Cmd("create", db, coll, <<>>, Transient)]
    ELSE IF st.collections[db][coll] # <<>>
    THEN [store |-> st, cmd |-> Cmd("create", db, coll, <<>>, "NamespaceExists")]
    ELSE [store |-> [st EXCEPT !.collections[db][coll] = <<DefaultSpec>>],
          cmd |-> Cmd("create", db, coll, <<>>, "")]

DropIndexesOf(st, db, coll) ==
    IF coll \in UserCollNames
    THEN [st EXCEPT !.indexes[db][coll] = [i \in IdxNames |-> <<>>]]
    ELSE st

\* db.RunCommand({drop: coll}): fails when the namespace does not exist.
RunCommandDrop(st, db, coll, faulty) ==
    IF faulty
    THEN [store |-> st, cmd |-> Cmd("drop", db, coll, <<>>, Transient)]
    ELSE IF st.collections[db][coll] = <<>>
    THEN [store |-> st, cmd |-> Cmd("drop", db, coll, <<>>, "NamespaceNotFound")]
    ELSE [store |-> [DropIndexesOf(st, db, coll) EXCEPT !.collections[db][coll] = <<>>],
          cmd |-> Cmd("drop", db, coll, <<>>, "")]

\* client.Database(db).Drop(ctx): drops every collection of the database.
DropDatabase(st, db, faulty) ==
    IF faulty
    THEN [store |-> st, cmd |-> Cmd("dropDatabase", db, "", <<>>, Transient)]
    ELSE [store |-> [st EXCEPT !.collections[db] = [c \in CollNames |-> <<>>],
                               !.indexes[db] = [c \in UserCollNames |-> [i \in IdxNames |-> <<>>]]],
          cmd |-> Cmd("dropDatabase", db, "", <<>>, "")]

----------------------------------------------------------------------------
\* A lifecycle call and its response.
\*   cmds        : the store commands issued, in order
\*   errors      : the error diagnostics of the response (summaries)
\*   warnings    : the warning diagnostics
\*   stateAction : "none" (response state untouched), "set", "removed"
\*   state       : the recorded state written, when stateAction = "set"

NoState == <<>>

Call(kind, op, id, req, cmds, errors, warnings, stateAction, state) ==
    [kind |-> kind, op |-> op, id |-> id, req |-> req, cmds |-> cmds,
     errors |-> errors, warnings |-> warnings,
     stateAction |-> stateAction, state |-> state]

NoCall == Call("none", "none", <<>>, <<>>, <<>>, <<>>, <<>>, "none", NoState)

\* What is remembered of the call before the last one.
Summary(call) ==
    [kind |-> call.kind, op |-> call.op, id |-> call.id,
     ok |-> call.errors = <<>>,
     keep |-> IF call.kind = "database" /\ call.op = "Create"
              THEN ValueBool(call.req.KeepPlaceholder)
              ELSE IF call.kind = "database" /\ call.op = "Update"
              THEN ValueBool(call.req.plan.KeepPlaceholder)
              ELSE FALSE]

\* Which command of a call fails for a reason of the store's own (0: none).
Faults == 0..2
Faults1 == 0..1

----------------------------------------------------------------------------
\* Change classification. The drivers carry no classifier of their own: each
\* schema attribute either has a RequiresReplace plan modifier or not, and
\* the host replaces the resource (Delete, then Create) when an attribute
\* with the modifier changes, and calls Update otherwise.

\* The attributes of a plan or a recorded state whose values differ; id is
\* computed (UseStateForUnknown) and never differs.
ChangedAttributes(plan, state) ==
    {a \in DOMAIN plan \ {"ID"} : plan[a] # state[a]}

Classify(changed, requiresReplace) ==
    IF changed = {} THEN "Unchanged"
    ELSE IF changed \cap requiresReplace # {} THEN "Replace"
    ELSE "UpdateInPlace"

\* The (plan, recorded state) pairs that the host hands to Update.
UpdateRequests(plans, states, requiresReplace) ==
    {u \in {[plan |-> [p EXCEPT !.ID = s.ID], state |-> s] : p \in plans, s \in states} :
        Classify(ChangedAttributes(u.plan, u.state), requiresReplace) = "UpdateInPlace"}

----------------------------------------------------------------------------
\* Database driver (internal/service/database/database_resource.go).

DatabasePlans ==
    [ID : {StringNull}, Name : {StringValue(n) : n \in DBNames},
     KeepPlaceholder : {BoolValue(TRUE), BoolValue(FALSE)}]

\* Recorded state: written by Create, Read or Update (id = name), or seeded
\* by ImportState (keep_placeholder null).
DatabaseStates ==
    {[ID |-> StringValue(n), Name |-> StringValue(n), KeepPlaceholder |-> k] :
        n \in DBNames, k \in {BoolNull, BoolValue(TRUE), BoolValue(FALSE)}}

\* Schema: neither name nor keep_placeholder has a RequiresReplace modifier.
DatabaseRequiresReplace == {}

\* The requests of an Update: id carried over from the recorded state.
DatabaseUpdatePlans ==
    UpdateRequests(DatabasePlans, DatabaseStates, DatabaseRequiresReplace)

DatabaseExistsNever(dbs) == FALSE

\* len(dbs) > 0
DatabaseExists(dbs) == Len(dbs) > 0

\* `_ = db.RunCommand(...).Err()`: the command's error is discarded.
DiscardErr(err) == <<>>

DatabaseCreateAlwaysKeeps(seen, st, plan, fault) ==
    LET name == ValueString(plan.Name)
        dbs == ListDatabaseNames(seen, name)
        listCmd == Cmd("listDatabases", name, "", <<>>, IF fault = 1 THEN Transient ELSE "")
    IN  IF fault = 1
        THEN [store |-> st,
              call |-> Call("database", "Create", <<name>>, plan, <<listCmd>>,
                            <<"List databases failed">>, <<>>, "none", NoState)]
        ELSE IF DatabaseExists(dbs)
        THEN [store |-> st,
              call |-> Call("database", "Create", <<name>>, plan, <<listCmd>>,
                            <<"Database already exists">>, <<>>, "none", NoState)]
        ELSE LET out == RunCommandCreate(st, name, tfPlaceholderColl, fault = 2)
                 run == TRUE
             IN  [store |-> IF run THEN out.store ELSE st,
                  call |-> Call("database", "Create", <<name>>, plan,
                                IF run THEN <<listCmd, out.cmd>> ELSE <<listCmd>>,
                                IF run THEN DiscardErr(out.cmd.err) ELSE <<>>,
                                <<>>, "set",
                                <<[plan EXCEPT !.ID = StringValue(name)]>>)]

\* Create, with the store as the existence check saw it (seen) and the store
\* as it is when the create command runs (st).
DatabaseCreateSteps(seen, st, plan, fault) ==
    LET name == ValueString(plan.Name)
        dbs == ListDatabaseNames(seen, name)
        listCmd == Cmd("listDatabases", name, "", <<>>, IF fault = 1 THEN Transient ELSE "")
    IN  IF fault = 1
        THEN [store |-> st,
              call |-> Call("database", "Create", <<name>>, plan, <<listCmd>>,
                            <<"List databases failed">>, <<>>, "none", NoState)]
        ELSE IF DatabaseExists(dbs)
        THEN [store |-> st,
              call |-> Call("database", "Create", <<name>>, plan, <<listCmd>>,
                            <<"Database already exists">>, <<>>, "none", NoState)]
        ELSE LET out == RunCommandCreate(st, name, tfPlaceholderColl, fault = 2)
                 run == ValueBool(plan.KeepPlaceholder)
             IN  [store |-> IF run THEN out.store ELSE st,
                  call |-> Call("database", "Create", <<name>>, plan,
                                IF run THEN <<listCmd, out.cmd>> ELSE <<listCmd>>,
                                IF run THEN DiscardErr(out.cmd.err) ELSE <<>>,
                                <<>>, "set",
                                <<[plan EXCEPT !.ID = StringValue(name)]>>)]

\* Create when no other client acts between its check and its command.
DatabaseCreateResult(st, plan, fault) == DatabaseCreateSteps(st, st, plan, fault)

\* len(names) == 0
DatabaseGone(names) == Cardinality(names) = 0

HasPlaceholderAnyCollection(names) == names # {}

\* slices.Contains(names, tfPlaceholderColl)
HasPlaceholder(names) == tfPlaceholderColl \in names

DatabaseReadResult(st, state, fault) ==
    LET name == ValueString(state.Name)
        names == ListCollectionNames(st, name)
        listCmd == Cmd("listCollections", name, "", <<>>, IF fault = 1 THEN Transient ELSE "")
    IN  IF fault = 1
        THEN [store |-> st,
              call |-> Call("database", "Read", <<name>>, state, <<listCmd>>,
                            <<"list collections failed">>, <<>>, "none", NoState)]
        ELSE IF DatabaseGone(names)
        THEN [store |-> st,
              call |-> Call("database", "Read", <<name>>, state, <<listCmd>>,
                            <<>>, <<>>, "removed", NoState)]
        ELSE [store |-> st,
              call |-> Call("database", "Read", <<name>>, state, <<listCmd>>,
                            <<>>, <<>>, "set",
                            <<[state EXCEPT !.ID = StringValue(name),
                                            !.KeepPlaceholder = BoolValue(HasPlaceholder(names))]>>)]

DatabaseUpdateCreatesOnly(st, plan, state, fault) ==
    LET name == ValueString(plan.Name)
        out == RunCommandCreate(st, name, tfPlaceholderColl, fault = 1)
    IN  [store |-> out.store,
         call |-> Call("database", "Update", <<name>>, [plan |-> plan, state |-> state],
                       <<out.cmd>>, DiscardErr(out.cmd.err), <<>>, "set", <<plan>>)]

DatabaseUpdateResult(st, plan, state, fault) ==
    LET name == ValueString(plan.Name)
        out == IF ValueBool(plan.KeepPlaceholder)
               THEN RunCommandCreate(st, name, tfPlaceholderColl, fault = 1)
               ELSE RunCommandDrop(st, name, tfPlaceholderColl, fault = 1)
    IN  [store |-> out.store,
         call |-> Call("database", "Update", <<name>>, [plan |-> plan, state |-> state],
                       <<out.cmd>>, DiscardErr(out.cmd.err), <<>>, "set", <<plan>>)]

DatabaseDeleteResult(st, state, fault) ==
    LET name == ValueString(state.Name)
        out == DropDatabase(st, name, fault = 1)
    IN  [store |-> out.store,
         call |-> Call("database", "Delete", <<name>>, state, <<out.cmd>>,
                       IF out.cmd.err # "" THEN <<"failed to drop database">> ELSE <<>>,
                       <<>>, "none", NoState)]

----------------------------------------------------------------------------
\* Extended JSON texts and the documents they parse to.

\* A document is held as its canonical extended-JSON text.

BadJSON == "{bad"
FilterJSON == "{\"active\":true}"
SchemaJSON == "{\"bsonType\":\"object\"}"
WrappedSchemaJSON == "{\"$jsonSchema\":{\"bsonType\":\"object\"}}"
DoublyWrappedSchemaJSON == "{\"$jsonSchema\":{\"$jsonSchema\":{\"bsonType\":\"object\"}}}"

\* The schema text as a user would write it, with white space.
SpacedSchemaJSON == "{ \"bsonType\": \"object\" }"

\* The canonical extended-JSON text of the document that a text parses to.
Canonical(text) == IF text = SpacedSchemaJSON THEN SchemaJSON ELSE text

\* bson.UnmarshalExtJSON(text, true, &raw): <<>> on a parse error, else the
\* parsed document.
UnmarshalExtJSON(text) ==
    IF text = BadJSON THEN <<>> ELSE <<[json |-> Canonical(text)]>>

InvalidJSONIgnored(text, raw) == FALSE

\* `if v != "" { if err := bson.UnmarshalExtJSON(...); err != nil {`: the
\* text is given and does not parse.
InvalidJSON(text, raw) == text # "" /\ raw = <<>>

\* bson.MarshalExtJSON(doc, true, true)
MarshalExtJSON(doc) == doc.json

\* bson.M{"$jsonSchema": raw}
JSONSchemaWrapper(raw) ==
    [json |-> CASE raw.json = SchemaJSON -> WrappedSchemaJSON
                [] raw.json = WrappedSchemaJSON -> DoublyWrappedSchemaJSON
                [] OTHER -> "{\"$jsonSchema\":...}"]

\* bson.D{}
EmptyDoc == [json |-> "{}"]

----------------------------------------------------------------------------
\* The store's index commands.

\* bson int encoding of a Go int: int32 when it fits, else int64.
EncodeInt(n) ==
    [type |-> IF n >= -2147483647 - 1 /\ n <= 2147483647 THEN "int32" ELSE "int64",
     v |-> n, text |-> ""]

IndexNamesOf(st, db, coll) == {i \in IdxNames : st.indexes[db][coll][i] # <<>>}

\* Indexes().ListSpecifications(ctx): the specifications of the collection's
\* indexes, as a set of names with their specifications.
ListSpecifications(st, db, coll) ==
    {[Name |-> i, spec |-> st.indexes[db][coll][i][1]] : i \in IndexNamesOf(st, db, coll)}

\* Indexes().CreateOne(ctx, model): creates the collection when it is
\* missing; an index of the same name and definition is left as it is; one
\* of the same name or the same keys but another definition is a conflict.
CreateOne(st, db, coll, name, spec, faulty) ==
    LET cmd(err) == Cmd("createIndexes", db, coll, [name |-> name, spec |-> spec], err)
        here == st.indexes[db][coll]
    IN  IF faulty
        THEN [store |-> st, cmd |-> cmd(Transient)]
        ELSE IF here[name] # <<>>
        THEN [store |-> st,
              cmd |-> cmd(IF here[name][1] = spec THEN "" ELSE "IndexKeySpecsConflict")]
        ELSE IF \E i \in IdxNames : here[i] # <<>> /\ here[i][1].keys = spec.keys
        THEN [store |-> st, cmd |-> cmd("IndexOptionsConflict")]
        ELSE [store |-> [st EXCEPT
                            !.indexes[db][coll][name] = <<spec>>,
                            !.collections[db][coll] =
                                IF @ = <<>> THEN <<DefaultSpec>> ELSE @],
              cmd |-> cmd("")]

\* Indexes().DropOne(ctx, name): fails when there is no such index.
DropOne(st, db, coll, name, faulty) ==
    LET cmd(err) == Cmd("dropIndexes", db, coll, [name |-> name], err)
    IN  IF faulty
        THEN [store |-> st, cmd |-> cmd(Transient)]
        ELSE IF st.indexes[db][coll][name] = <<>>
        THEN [store |-> st, cmd |-> cmd("IndexNotFound")]
        ELSE [store |-> [st EXCEPT !.indexes[db][coll][name] = <<>>], cmd |-> cmd("")]

----------------------------------------------------------------------------
\* Index driver (internal/service/index/index_resource.go).

IndexDB == DBPool[1]
IndexColl == CollPool[1]

IndexPlan(n, k, p) ==
    [ID |-> StringNull, Database |-> StringValue(IndexDB),
     Collection |-> StringValue(IndexColl), Name |-> StringValue(n),
     Unique |-> BoolValue(Len(k) = 1), Sparse |-> BoolValue(FALSE),
     TTL |-> <<>>, Partial |-> p, Background |-> BoolValue(TRUE), Keys |-> k]

EmailKey == <<[Field |-> "email", Order |-> 1]>>
NameAgeKeys == <<[Field |-> "name", Order |-> 1], [Field |-> "age", Order |-> -1]>>

IndexPlans ==
    UNION {{IndexPlan(n, EmailKey, StringNull),
            IndexPlan(n, NameAgeKeys, StringValue(FilterJSON)),
            IndexPlan(n, EmailKey, StringValue(BadJSON))} : n \in IdxNames}

IndexID(db, coll, name) == <<db, coll, name>>

\* Recorded state: what Create, Read or Update wrote; an Update may have
\* recorded background = false.
IndexStates ==
    {[p EXCEPT !.ID = StringValue(IndexID(IndexDB, IndexColl, ValueString(p.Name))),
               !.Background = BoolValue(b)] :
        p \in {q \in IndexPlans : q.Partial # StringValue(BadJSON)}, b \in BOOLEAN}

\* Schema: every attribute but background has a RequiresReplace modifier.
IndexRequiresReplace ==
    {"Database", "Collection", "Name", "Unique", "Sparse", "TTL", "Partial", "Keys"}

\* The requests of an Update: the plans above, with background on or off.
IndexUpdates ==
    UpdateRequests(IndexPlans \cup {[p EXCEPT !.Background = BoolValue(FALSE)] : p \in IndexPlans},
                   IndexStates, IndexRequiresReplace)

IndexListedNever(specifications, name) == FALSE

\* slices.ContainsFunc(specifications, name == plan.Name)
IndexListed(specifications, name) == \E s \in specifications : s.Name = name

RECURSIVE PlanKeys(_)
\* keys = append(keys, bson.E{Key: field, Value: int(order)}) for each key
PlanKeys(keys) ==
    IF keys = <<>> THEN <<>>
    ELSE <<[Key |-> keys[1].Field, Value |-> EncodeInt(keys[1].Order)]>> \o PlanKeys(Tail(keys))

\* Create, with the store as the listing saw it (seen) and the store as it
\* is when the create-index command runs (st).
IndexCreateSteps(seen, st, plan, fault) ==
    LET db == ValueString(plan.Database)
        coll == ValueString(plan.Collection)
        name == ValueString(plan.Name)
        id == IndexID(db, coll, name)
        specifications == ListSpecifications(seen, db, coll)
        listCmd == Cmd("listIndexes", db, coll, <<>>, IF fault = 1 THEN Transient ELSE "")
        p == ValueString(plan.Partial)
        raw == UnmarshalExtJSON(p)
        idx == [keys |-> PlanKeys(plan.Keys), Unique |-> plan.Unique,
                Sparse |-> plan.Sparse, ExpireAfterSeconds |-> plan.TTL,
                Background |-> plan.Background,
                PartialFilterExpression |-> IF p # "" THEN raw ELSE <<>>]
        out == CreateOne(st, db, coll, name, idx, fault = 2)
        failed(cmds, error) ==
            [store |-> st,
             call |-> Call("index", "Create", id, plan, cmds, <<error>>, <<>>, "none", NoState)]
    IN  IF fault = 1 THEN failed(<<listCmd>>, "List indexes failed")
        ELSE IF IndexListed(specifications, name)
        THEN failed(<<listCmd>>, "Index already exists")
        ELSE IF InvalidJSON(p, raw)
        THEN failed(<<listCmd>>, "invalid partial_filter_expression JSON")
        ELSE IF out.cmd.err # ""
        THEN failed(<<listCmd, out.cmd>>, "create index failed")
        ELSE [store |-> out.store,
              call |-> Call("index", "Create", id, plan, <<listCmd, out.cmd>>, <<>>, <<>>,
                            "set", <<[plan EXCEPT !.ID = StringValue(IndexID(db, coll, name))]>>)]

\* Create when no other client acts between its listing and its command.
IndexCreateResult(st, plan, fault) == IndexCreateSteps(st, st, plan, fault)

\* BSON values of a key document. A double is held as a count of halves,
\* so that 1.0 is Double(2) and -1.5 is Double(-3).
Int32(n) == [type |-> "int32", v |-> n, text |-> ""]
Int64(n) == [type |-> "int64", v |-> n, text |-> ""]
Double(halves) == [type |-> "double", v |-> halves, text |-> ""]
Text(t) == [type |-> "string", v |-> 0, text |-> t]

\* int64(v) of a float64: the fraction is dropped (rounding toward zero).
Truncate(halves) == IF halves >= 0 THEN halves \div 2 ELSE -((-halves) \div 2)

KeyOrderIntegersOnly(value) ==
    IF value.type \in {"int32", "int64"} THEN <<value.v>> ELSE <<>>

\* The order of one raw key entry: int32, int64 and double are coerced to
\* int64; <<>> for any other kind.
KeyOrder(value) ==
    IF value.type \in {"int32", "int64"} THEN <<value.v>>
    ELSE IF value.type = "double" THEN <<Truncate(value.v)>>
    ELSE <<>>

RECURSIVE DecodeKeys(_)
\* The loop over keysDoc: numeric entries in order, others skipped.
DecodeKeys(keysDoc) ==
    IF keysDoc = <<>> THEN <<>>
    ELSE (IF KeyOrder(keysDoc[1].Value) = <<>> THEN <<>>
          ELSE <<[Field |-> keysDoc[1].Key, Order |-> KeyOrder(keysDoc[1].Value)[1]]>>)
         \o DecodeKeys(Tail(keysDoc))

DecodeWarningsNone(keysDoc) == <<>>

RECURSIVE DecodeWarnings(_)
\* One warning per skipped entry, naming its field.
DecodeWarnings(keysDoc) ==
    IF keysDoc = <<>> THEN <<>>
    ELSE (IF KeyOrder(keysDoc[1].Value) = <<>>
          THEN <<[summary |-> "Non-numeric index key order encountered",
                  field |-> keysDoc[1].Key]>>
          ELSE <<>>)
         \o DecodeWarnings(Tail(keysDoc))

\* After resp.State.RemoveResource(ctx) the handler goes on to the lookup
\* loop, which finds nothing and adds the "Index not found" error.
IndexMissingErrors == <<"Index not found">>

IndexReadResult(st, state, fault) ==
    LET db == ValueString(state.Database)
        coll == ValueString(state.Collection)
        name == ValueString(state.Name)
        id == IndexID(db, coll, name)
        indexes == ListSpecifications(st, db, coll)
        listCmd == Cmd("listIndexes", db, coll, <<>>, IF fault = 1 THEN Transient ELSE "")
    IN  IF fault = 1
        THEN [store |-> st,
              call |-> Call("index", "Read", id, state, <<listCmd>>,
                            <<"Failed to list index">>, <<>>, "none", NoState)]
        ELSE IF ~IndexListed(indexes, name)
        THEN [store |-> st,
              call |-> Call("index", "Read", id, state, <<listCmd>>,
                            IndexMissingErrors, <<>>, "removed", NoState)]
        ELSE LET index == (CHOOSE s \in indexes : s.Name = name).spec
             IN  [store |-> st,
                  call |-> Call("index", "Read", id, state, <<listCmd>>, <<>>,
                                DecodeWarnings(index.keys), "set",
                                <<[state EXCEPT
                                     !.Unique = index.Unique,
                                     !.Sparse = index.Sparse,
                                     !.TTL = index.ExpireAfterSeconds,
                                     !.Keys = DecodeKeys(index.keys),
                                     !.ID = StringValue(IndexID(db, coll, name))]>>)]

IndexUpdateKeepsState(st, plan, state) ==
    [store |-> st,
     call |-> Call("index", "Update",
                   IndexID(ValueString(plan.Database), ValueString(plan.Collection),
                           ValueString(plan.Name)),
                   [plan |-> plan, state |-> state], <<>>, <<>>, <<>>, "set", <<state>>)]

IndexUpdateResult(st, plan, state) ==
    [store |-> st,
     call |-> Call("index", "Update",
                   IndexID(ValueString(plan.Database), ValueString(plan.Collection),
                           ValueString(plan.Name)),
                   [plan |-> plan, state |-> state], <<>>, <<>>, <<>>, "set", <<plan>>)]

IndexDeleteRetries(st, state, fault) ==
    LET db == ValueString(state.Database)
        coll == ValueString(state.Collection)
        name == ValueString(state.Name)
        out == DropOne(st, db, coll, name, fault = 1)
        again == DropOne(out.store, db, coll, name, FALSE)
    IN  IF out.cmd.err = ""
        THEN [store |-> out.store,
              call |-> Call("index", "Delete", IndexID(db, coll, name), state,
                            <<out.cmd>>, <<>>, <<>>, "none", NoState)]
        ELSE [store |-> again.store,
              call |-> Call("index", "Delete", IndexID(db, coll, name), state,
                            <<out.cmd, again.cmd>>,
                            IF again.cmd.err # "" THEN <<"drop index failed">> ELSE <<>>,
                            <<>>, "none", NoState)]

IndexDeleteResult(st, state, fault) ==
    LET db == ValueString(state.Database)
        coll == ValueString(state.Collection)
        name == ValueString(state.Name)
        out == DropOne(st, db, coll, name, fault = 1)
    IN  [store |-> out.store,
         call |-> Call("index", "Delete", IndexID(db, coll, name), state, <<out.cmd>>,
                       IF out.cmd.err # "" THEN <<"drop index failed">> ELSE <<>>,
                       <<>>, "none", NoState)]

----------------------------------------------------------------------------
\* The store's collection commands.

\* db.ListCollectionSpecifications(ctx, {name: n})
ListCollectionSpecifications(st, db, name) == st.collections[db][name]

\* db.CreateCollection(ctx, name, opts): fails when the namespace exists or
\* when time-series options come without a time field.
CreateCollection(st, db, name, opts, faulty) ==
    LET cmd(err) == Cmd("createCollection", db, name, opts, err)
    IN  IF faulty
        THEN [store |-> st, cmd |-> cmd(Transient)]
        ELSE IF st.collections[db][name] # <<>>
        THEN [store |-> st, cmd |-> cmd("NamespaceExists")]
        ELSE IF opts.timeseries # <<>> /\ opts.timeseries[1].timeField = ""
        THEN [store |-> st, cmd |-> cmd("InvalidOptions")]
        ELSE [store |-> [st EXCEPT !.collections[db][name] = <<[Options |-> <<opts>>]>>],
              cmd |-> cmd("")]

\* The options of a specification after collMod with the given fields; an
\* empty validator document clears the validator.
ModifiedSpec(spec, doc) ==
    LET old == IF spec.Options = <<>> THEN DefaultOptions ELSE spec.Options[1]
    IN  [Options |-> <<[old EXCEPT
            !.validator = IF "validator" \notin DOMAIN doc THEN @
                          ELSE IF doc.validator = EmptyDoc THEN <<>>
                          ELSE <<doc.validator>>,
            !.validationLevel = IF "validationLevel" \in DOMAIN doc
                                THEN <<doc.validationLevel>> ELSE @,
            !.validationAction = IF "validationAction" \in DOMAIN doc
                                 THEN <<doc.validationAction>> ELSE @]>>]

RECURSIVE ModifiedSpecs(_, _)
ModifiedSpecs(specs, doc) ==
    IF specs = <<>> THEN <<>>
    ELSE <<ModifiedSpec(specs[1], doc)>> \o ModifiedSpecs(Tail(specs), doc)

\* db.RunCommand({collMod: name, ...}): fails when the namespace is missing.
RunCommandCollMod(st, db, name, doc, faulty) ==
    LET cmd(err) == Cmd("collMod", db, name, doc, err)
    IN  IF faulty
        THEN [store |-> st, cmd |-> cmd(Transient)]
        ELSE IF st.collections[db][name] = <<>>
        THEN [store |-> st, cmd |-> cmd("NamespaceNotFound")]
        ELSE [store |-> [st EXCEPT !.collections[db][name] = ModifiedSpecs(@, doc)],
              cmd |-> cmd("")]

\* db.Collection(name).Drop(ctx): a missing namespace is not an error.
DropCollection(st, db, name, faulty) ==
    LET cmd(err) == Cmd("dropCollection", db, name, <<>>, err)
    IN  IF faulty
        THEN [store |-> st, cmd |-> cmd(Transient)]
        ELSE [store |-> [DropIndexesOf(st, db, name) EXCEPT !.collections[db][name] = <<>>],
              cmd |-> cmd("")]

----------------------------------------------------------------------------
\* Collection driver (internal/service/collection/collection_resource.go).

\* The managed collection and the database it lives in.
CollDB == DBPool[1]
ManagedCollNames == {CollPool[1]}

Int64Null == <<>>
Int64Value(n) == <<n>>

NoTimeSeries == <<>>

\* plan.TimeSeries: nil, a block with a time field, a block without one.
HourlySeries ==
    <<[TimeField |-> StringValue("ts"), MetaField |-> StringNull,
       Granularity |-> StringValue("hours"), BucketMaxSpanSeconds |-> Int64Null,
       BucketRoundingSeconds |-> Int64Null, ExpireAfterSeconds |-> Int64Value(3600)]>>

SeriesWithoutTimeField ==
    <<[TimeField |-> StringNull, MetaField |-> StringNull,
       Granularity |-> StringNull, BucketMaxSpanSeconds |-> Int64Null,
       BucketRoundingSeconds |-> Int64Null, ExpireAfterSeconds |-> Int64Null]>>

CollectionModel(n, v, level, action, ts) ==
    [ID |-> StringNull, Database |-> StringValue(CollDB), Name |-> StringValue(n),
     Validator |-> v, ValidationLevel |-> StringValue(level),
     ValidationAction |-> StringValue(action), TimeSeries |-> ts]

\* Plans without a time-series block; validation_level and validation_action
\* have schema defaults, so they are never null in a plan.
PlainPlans ==
    UNION {{CollectionModel(n, StringNull, "strict", "error", NoTimeSeries),
            CollectionModel(n, StringNull, "moderate", "error", NoTimeSeries),
            CollectionModel(n, StringValue(""), "strict", "warn", NoTimeSeries),
            CollectionModel(n, StringValue(SchemaJSON), "moderate", "warn", NoTimeSeries),
            CollectionModel(n, StringValue(BadJSON), "strict", "error", NoTimeSeries)} :
           n \in ManagedCollNames}

\* Plans with a time-series block.
HourlyPlans ==
    {CollectionModel(n, StringNull, "strict", "error", HourlySeries) : n \in ManagedCollNames}

CollectionPlans ==
    PlainPlans \cup HourlyPlans \cup
    UNION {{CollectionModel(n, StringValue(SpacedSchemaJSON), "strict", "error", NoTimeSeries),
            CollectionModel(n, StringNull, "strict", "error", SeriesWithoutTimeField)} :
           n \in ManagedCollNames}

CollectionID(db, name) == <<db, name>>

WithID(m) ==
    [m EXCEPT !.ID = StringValue(CollectionID(ValueString(m.Database), ValueString(m.Name)))]

\* Recorded state: what Create or Update wrote, or what Read decoded.
CollectionStates ==
    {WithID(p) : p \in {q \in PlainPlans : q.Validator # StringValue(BadJSON)}} \cup
    UNION {{WithID(CollectionModel(n, StringValue(WrappedSchemaJSON), "moderate", "warn",
                                   NoTimeSeries)),
            WithID(CollectionModel(n, StringNull, "strict", "error", HourlySeries))} :
           n \in ManagedCollNames}

\* Schema: no attribute of the collection has a RequiresReplace modifier.
CollectionRequiresReplace == {}

\* A plan that names the collection in another database.
MovedPlans ==
    {[p EXCEPT !.Database = StringValue(DBPool[2])] :
        p \in {CollectionModel(n, StringNull, "strict", "warn", NoTimeSeries) :
                    n \in ManagedCollNames}}

\* The requests of an Update.
CollectionUpdates ==
    UpdateRequests(PlainPlans \cup HourlyPlans \cup MovedPlans, CollectionStates,
                   CollectionRequiresReplace)

\* The time-series creation options built from plan.TimeSeries.
TimeSeriesOptions(ts) ==
    [timeField |-> ValueString(ts.TimeField),
     metaField |-> IF ValueString(ts.MetaField) # "" THEN ts.MetaField ELSE <<>>,
     granularity |-> IF ValueString(ts.Granularity) # "" THEN ts.Granularity ELSE <<>>,
     bucketMaxSpanSeconds |-> ts.BucketMaxSpanSeconds,
     bucketRoundingSeconds |-> ts.BucketRoundingSeconds]

CollectionCreateResult(st, plan, fault) ==
    LET db == ValueString(plan.Database)
        name == ValueString(plan.Name)
        id == CollectionID(db, name)
        v == ValueString(plan.Validator)
        raw == UnmarshalExtJSON(v)
        opts == [validator |-> IF v # "" /\ raw # <<>>
                               THEN <<JSONSchemaWrapper(raw[1])>> ELSE <<>>,
                 validationLevel |-> plan.ValidationLevel,
                 validationAction |-> plan.ValidationAction,
                 timeseries |-> IF plan.TimeSeries # NoTimeSeries
                                THEN <<TimeSeriesOptions(plan.TimeSeries[1])>> ELSE <<>>,
                 expireAfterSeconds |-> IF plan.TimeSeries # NoTimeSeries
                                        THEN plan.TimeSeries[1].ExpireAfterSeconds ELSE <<>>]
        out == CreateCollection(st, db, name, opts, fault = 1)
    IN  IF InvalidJSON(v, raw)
        THEN [store |-> st,
              call |-> Call("collection", "Create", id, plan, <<>>,
                            <<"invalid validator JSON">>, <<>>, "none", NoState)]
        ELSE IF out.cmd.err # ""
        THEN [store |-> st,
              call |-> Call("collection", "Create", id, plan, <<out.cmd>>,
                            <<"create collection failed">>, <<>>, "none", NoState)]
        ELSE [store |-> out.store,
              call |-> Call("collection", "Create", id, plan, <<out.cmd>>, <<>>, <<>>,
                            "set", <<WithID(plan)>>)]

CollectionNotFoundWhenEmpty(collections) == Len(collections) = 0

\* collections == nil || len(collections) != 1
CollectionNotFound(collections) == Len(collections) # 1

\* The time-series block decoded from the options document.
DecodeTimeSeries(options) ==
    IF options.timeseries = <<>> THEN NoTimeSeries
    ELSE LET tsDoc == options.timeseries[1]
         IN  <<[TimeField |-> StringValue(tsDoc.timeField),
                MetaField |-> tsDoc.metaField,
                Granularity |-> tsDoc.granularity,
                BucketMaxSpanSeconds |-> tsDoc.bucketMaxSpanSeconds,
                BucketRoundingSeconds |-> tsDoc.bucketRoundingSeconds,
                ExpireAfterSeconds |-> options.expireAfterSeconds]>>

\* The recorded state decoded from one specification.
DecodeCollection(state, collection) ==
    IF collection.Options = <<>>
    THEN [state EXCEPT !.Validator = StringNull, !.ValidationLevel = StringNull,
                       !.ValidationAction = StringNull, !.TimeSeries = NoTimeSeries]
    ELSE LET options == collection.Options[1]
         IN  [state EXCEPT
                !.Validator = IF options.validator # <<>>
                              THEN StringValue(MarshalExtJSON(options.validator[1]))
                              ELSE StringNull,
                !.ValidationLevel = IF options.validationLevel # <<>>
                                    THEN options.validationLevel ELSE @,
                !.ValidationAction = IF options.validationAction # <<>>
                                     THEN options.validationAction ELSE @,
                !.TimeSeries = DecodeTimeSeries(options)]

CollectionReadResult(st, state, fault) ==
    LET db == ValueString(state.Database)
        name == ValueString(state.Name)
        id == CollectionID(db, name)
        collections == ListCollectionSpecifications(st, db, name)
        listCmd == Cmd("listCollections", db, name, <<>>, IF fault = 1 THEN Transient ELSE "")
    IN  IF fault = 1
        THEN [store |-> st,
              call |-> Call("collection", "Read", id, state, <<listCmd>>,
                            <<"Error reading collection">>, <<>>, "none", NoState)]
        ELSE IF CollectionNotFound(collections)
        THEN [store |-> st,
              call |-> Call("collection", "Read", id, state, <<listCmd>>,
                            <<"Collection not found">>, <<>>, "none", NoState)]
        ELSE [store |-> st,
              call |-> Call("collection", "Read", id, state, <<listCmd>>, <<>>, <<>>,
                            "set", <<WithID(DecodeCollection(state, collections[1]))>>)]

DiffersAsValues(planValue, stateValue) == planValue # stateValue

\* plan.X.ValueString() != state.X.ValueString()
Differs(planValue, stateValue) == ValueString(planValue) # ValueString(stateValue)

\* The fields appended to the collMod command, as a record; the validator
\* is sent as parsed, an empty desired validator as an empty document.
CollModFields(plan, state) ==
    LET v == ValueString(plan.Validator)
        fv == IF Differs(plan.Validator, state.Validator)
              THEN [validator |-> IF v = "" THEN EmptyDoc ELSE UnmarshalExtJSON(v)[1]]
              ELSE <<>>
        fl == IF Differs(plan.ValidationLevel, state.ValidationLevel)
              THEN [validationLevel |-> ValueString(plan.ValidationLevel)]
              ELSE <<>>
        fa == IF Differs(plan.ValidationAction, state.ValidationAction)
              THEN [validationAction |-> ValueString(plan.ValidationAction)]
              ELSE <<>>
    IN  fv @@ fl @@ fa

\* len(cmd) > 1
CollModNeeded(fields) == DOMAIN fields # {}

CollectionUpdateResult(st, plan, state, fault) ==
    LET db == ValueString(plan.Database)
        name == ValueString(plan.Name)
        id == CollectionID(db, name)
        v == ValueString(plan.Validator)
        req == [plan |-> plan, state |-> state]
    IN  IF Differs(plan.Validator, state.Validator) /\ InvalidJSON(v, UnmarshalExtJSON(v))
        THEN [store |-> st,
              call |-> Call("collection", "Update", id, req, <<>>,
                            <<"invalid validator JSON">>, <<>>, "none", NoState)]
        ELSE LET fields == CollModFields(plan, state)
                 out == RunCommandCollMod(st, db, name, fields, fault = 1)
             IN  IF ~CollModNeeded(fields)
                 THEN [store |-> st,
                       call |-> Call("collection", "Update", id, req, <<>>, <<>>, <<>>,
                                     "set", <<plan>>)]
                 ELSE IF out.cmd.err # ""
                 THEN [store |-> st,
                       call |-> Call("collection", "Update", id, req, <<out.cmd>>,
                                     <<"collMod failed">>, <<>>, "none", NoState)]
                 ELSE [store |-> out.store,
                       call |-> Call("collection", "Update", id, req, <<out.cmd>>, <<>>, <<>>,
                                     "set", <<plan>>)]

CollectionDeleteResult(st, state, fault) ==
    LET db == ValueString(state.Database)
        name == ValueString(state.Name)
        out == DropCollection(st, db, name, fault = 1)
    IN  [store |-> out.store,
         call |-> Call("collection", "Delete", CollectionID(db, name), state, <<out.cmd>>,
                       IF out.cmd.err # "" THEN <<"drop collection failed">> ELSE <<>>,
                       <<>>, "none", NoState)]

----------------------------------------------------------------------------
\* Data sources: read-only lookups by name, with no recorded state.

DatabaseConfigs ==
    {[ID |-> StringNull, Name |-> StringValue(n), KeepPlaceholder |-> BoolNull] :
        n \in DBNames}

DatabaseDataSourceResult(st, config, fault) ==
    LET name == ValueString(config.Name)
        names == ListCollectionNames(st, name)
        listCmd == Cmd("listCollections", name, "", <<>>, IF fault = 1 THEN Transient ELSE "")
        failed(detail) ==
            [store |-> st,
             call |-> Call("database", "Lookup", <<name>>, config, <<listCmd>>,
                           <<detail>>, <<>>, "none", NoState)]
    IN  IF fault = 1 THEN failed("list collections failed")
        ELSE IF DatabaseGone(names) THEN failed("not found")
        ELSE [store |-> st,
              call |-> Call("database", "Lookup", <<name>>, config, <<listCmd>>, <<>>, <<>>,
                            "set",
                            <<[config EXCEPT
                                 !.ID = StringValue(name),
                                 !.KeepPlaceholder = BoolValue(HasPlaceholder(names))]>>)]

CollectionConfigs ==
    {[ID |-> StringNull, Database |-> StringValue(CollDB), Name |-> StringValue(n),
      Validator |-> StringNull, ValidationLevel |-> StringNull,
      ValidationAction |-> StringNull, TimeSeries |-> NoTimeSeries] :
        n \in ManagedCollNames}

\* As the resource's Read decodes, but a missing validation level or action
\* is reported as "strict" or "error".
DecodeCollectionData(config, collection) ==
    [DecodeCollection(config, collection) EXCEPT
        !.ValidationLevel = IF @ = StringNull THEN StringValue("strict") ELSE @,
        !.ValidationAction = IF @ = StringNull THEN StringValue("error") ELSE @]

CollectionDataSourceResult(st, config, fault) ==
    LET db == ValueString(config.Database)
        name == ValueString(config.Name)
        id == CollectionID(db, name)
        collections == ListCollectionSpecifications(st, db, name)
        listCmd == Cmd("listCollections", db, name, <<>>, IF fault = 1 THEN Transient ELSE "")
        failed(summary) ==
            [store |-> st,
             call |-> Call("collection", "Lookup", id, config, <<listCmd>>,
                           <<summary>>, <<>>, "none", NoState)]
    IN  IF fault = 1 THEN failed("Error reading collection")
        ELSE IF CollectionNotFound(collections) THEN failed("Collection not found")
        ELSE [store |-> st,
              call |-> Call("collection", "Lookup", id, config, <<listCmd>>, <<>>, <<>>,
                            "set", <<WithID(DecodeCollectionData(config, collections[1]))>>)]

IndexConfigs ==
    {[ID |-> StringNull, Database |-> StringValue(IndexDB),
      Collection |-> StringValue(IndexColl), Name |-> StringValue(n),
      Unique |-> BoolNull, Sparse |-> BoolNull, TTL |-> <<>>, Keys |-> <<>>] :
        n \in IdxNames}

IndexDataSourceResult(st, config, fault) ==
    LET db == ValueString(config.Database)
        coll == ValueString(config.Collection)
        name == ValueString(config.Name)
        id == IndexID(db, coll, name)
        indexes == ListSpecifications(st, db, coll)
        listCmd == Cmd("listIndexes", db, coll, <<>>, IF fault = 1 THEN Transient ELSE "")
        failed(summary) ==
            [store |-> st,
             call |-> Call("index", "Lookup", id, config, <<listCmd>>,
                           <<summary>>, <<>>, "none", NoState)]
    IN  IF fault = 1 THEN failed("Failed to list index specifications")
        ELSE IF ~IndexListed(indexes, name) THEN failed("Index not found")
        ELSE LET index == (CHOOSE s \in indexes : s.Name = name).spec
             IN  [store |-> st,
                  call |-> Call("index", "Lookup", id, config, <<listCmd>>, <<>>,
                                DecodeWarnings(index.keys), "set",
                                <<[config EXCEPT
                                     !.Unique = index.Unique,
                                     !.TTL = index.ExpireAfterSeconds,
                                     !.Keys = DecodeKeys(index.keys),
                                     !.ID = StringValue(IndexID(db, coll, name))]>>)]

----------------------------------------------------------------------------
\* Identity texts and ImportState. Here a text is a sequence of characters,
\* so that trimming and splitting work on it as they do on a Go string.

MaxIDLen == 7

\* A letter, the separator and a white-space character.
Chars == {"a", "/", " "}

ImportIDs == UNION {[1..n -> Chars] : n \in 0..MaxIDLen}

RECURSIVE TrimLeft(_)
TrimLeft(s) ==
    IF Len(s) > 0 /\ s[1] = " " THEN TrimLeft(SubSeq(s, 2, Len(s))) ELSE s

RECURSIVE TrimRight(_)
TrimRight(s) ==
    IF Len(s) > 0 /\ s[Len(s)] = " " THEN TrimRight(SubSeq(s, 1, Len(s) - 1)) ELSE s

TrimNothing(s) == s

\* strings.TrimSpace(s)
TrimSpace(s) == TrimRight(TrimLeft(s))

IndexByteLast(s) ==
    IF \E i \in 1..Len(s) : s[i] = "/"
    THEN CHOOSE i \in 1..Len(s) : s[i] = "/" /\ \A j \in (i + 1)..Len(s) : s[j] # "/"
    ELSE 0

\* The position of the first "/" of s, 0 when it has none.
IndexByte(s) ==
    IF \E i \in 1..Len(s) : s[i] = "/"
    THEN CHOOSE i \in 1..Len(s) : s[i] = "/" /\ \A j \in 1..(i - 1) : s[j] # "/"
    ELSE 0

RECURSIVE SplitN(_, _)
\* strings.SplitN(s, "/", n) for n > 0: at most n parts, the last one the
\* unsplit rest.
SplitN(s, n) ==
    IF n = 1 \/ IndexByte(s) = 0 THEN <<s>>
    ELSE <<SubSeq(s, 1, IndexByte(s) - 1)>>
         \o SplitN(SubSeq(s, IndexByte(s) + 1, Len(s)), n - 1)

\* The identity texts that Create and Read record:
\* name, fmt.Sprintf("%s/%s", ...), fmt.Sprintf("%s/%s/%s", ...).
DatabaseIDText(name) == name
CollectionIDText(db, name) == db \o <<"/">> \o name
IndexIDText(db, coll, name) == db \o <<"/">> \o coll \o <<"/">> \o name

ImportFailed(kind, reqID, summary) ==
    Call(kind, "Import", <<>>, reqID, <<>>, <<summary>>, <<>>, "none", NoState)

DatabaseImportResult(st, reqID) ==
    LET id == TrimSpace(reqID)
    IN  [store |-> st,
         call |-> IF Len(id) = 0
                  THEN ImportFailed("database", reqID, "Empty import ID")
                  ELSE Call("database", "Import", <<>>, reqID, <<>>, <<>>, <<>>, "set",
                            <<[ID |-> StringValue(id), Name |-> StringValue(id),
                               KeepPlaceholder |-> BoolNull]>>)]

CollectionImportResult(st, reqID) ==
    LET id == TrimSpace(reqID)
        parts == SplitN(id, 2)
    IN  [store |-> st,
         call |-> IF Len(id) = 0
                  THEN ImportFailed("collection", reqID, "Empty import ID")
                  ELSE IF Len(parts) # 2 \/ Len(parts[1]) = 0 \/ Len(parts[2]) = 0
                  THEN ImportFailed("collection", reqID, "Invalid import ID")
                  ELSE Call("collection", "Import", <<>>, reqID, <<>>, <<>>, <<>>, "set",
                            <<[ID |-> StringValue(id), Database |-> StringValue(parts[1]),
                               Name |-> StringValue(parts[2]), Validator |-> StringNull,
                               ValidationLevel |-> StringNull,
                               ValidationAction |-> StringNull,
                               TimeSeries |-> NoTimeSeries]>>)]

IndexImportResult(st, reqID) ==
    LET id == TrimSpace(reqID)
        parts == SplitN(id, 3)
    IN  [store |-> st,
         call |-> IF Len(id) = 0
                  THEN ImportFailed("index", reqID, "Empty import ID")
                  ELSE IF Len(parts) # 3 \/ Len(parts[1]) = 0 \/ Len(parts[2]) = 0
                            \/ Len(parts[3]) = 0
                  THEN ImportFailed("index", reqID, "Invalid import ID")
                  ELSE Call("index", "Import", <<>>, reqID, <<>>, <<>>, <<>>, "set",
                            <<[ID |-> StringValue(id), Database |-> StringValue(parts[1]),
                               Collection |-> StringValue(parts[2]),
                               Name |-> StringValue(parts[3]),
                               Unique |-> BoolNull, Sparse |-> BoolNull, TTL |-> <<>>,
                               Partial |-> StringNull, Background |-> BoolNull,
                               Keys |-> <<>>]>>)]

----------------------------------------------------------------------------
\* Actions.

Step(result) ==
    /\ store' = result.store
    /\ before' = store
    /\ last' = result.call
    /\ prev' = Summary(last)
    /\ UNCHANGED request

DatabaseCreate ==
    \E plan \in DatabasePlans, fault \in Faults :
        Step(DatabaseCreateResult(store, plan, fault))

DatabaseRead ==
    \E state \in DatabaseStates, fault \in Faults1 :
        Step(DatabaseReadResult(store, state, fault))

DatabaseUpdate ==
    \E u \in DatabaseUpdatePlans, fault \in Faults1 :
        Step(DatabaseUpdateResult(store, u.plan, u.state, fault))

DatabaseDelete ==
    \E state \in DatabaseStates, fault \in Faults1 :
        Step(DatabaseDeleteResult(store, state, fault))

\* Another client of the store creates or drops a collection.
ExternalCreate ==
    \E d \in DBNames, c \in UserCollNames :
        /\ store.collections[d][c] = <<>>
        /\ Step([store |-> [store EXCEPT !.collections[d][c] = <<DefaultSpec>>],
                 call |-> Call("external", "create", <<d, c>>, <<>>, <<>>, <<>>, <<>>, "none", NoState)])

ExternalDrop ==
    \E d \in DBNames, c \in CollNames :
        /\ store.collections[d][c] # <<>>
        /\ Step([store |-> RunCommandDrop(store, d, c, FALSE).store,
                 call |-> Call("external", "drop", <<d, c>>, <<>>, <<>>, <<>>, <<>>, "none", NoState)])

IndexCreate ==
    \E plan \in IndexPlans, fault \in Faults :
        Step(IndexCreateResult(store, plan, fault))

IndexRead ==
    \E state \in IndexStates, fault \in Faults1 :
        Step(IndexReadResult(store, state, fault))

IndexUpdate ==
    \E u \in IndexUpdates :
        Step(IndexUpdateResult(store, u.plan, u.state))

IndexDelete ==
    \E state \in IndexStates, fault \in Faults1 :
        Step(IndexDeleteResult(store, state, fault))

\* Another client of the store creates an index, here a geospatial one whose
\* keys the provider's schema cannot express.
ExternalIndexSpec ==
    [keys |-> <<[Key |-> "loc", Value |-> Text("2dsphere")],
                [Key |-> "ts", Value |-> Double(2)]>>,
     Unique |-> <<>>, Sparse |-> <<>>, ExpireAfterSeconds |-> <<>>,
     Background |-> <<>>, PartialFilterExpression |-> <<>>]

ExternalCreateIndex ==
    \E i \in IdxNames :
        LET out == CreateOne(store, IndexDB, IndexColl, i, ExternalIndexSpec, FALSE)
        IN  /\ store.indexes[IndexDB][IndexColl][i] = <<>>
            /\ out.cmd.err = ""
            /\ Step([store |-> out.store,
                     call |-> Call("external", "createIndexes", IndexID(IndexDB, IndexColl, i),
                                   <<>>, <<>>, <<>>, <<>>, "none", NoState)])

ExternalDropIndex ==
    \E i \in IdxNames :
        /\ store.indexes[IndexDB][IndexColl][i] # <<>>
        /\ Step([store |-> DropOne(store, IndexDB, IndexColl, i, FALSE).store,
                 call |-> Call("external", "dropIndexes", IndexID(IndexDB, IndexColl, i),
                               <<>>, <<>>, <<>>, <<>>, "none", NoState)])

CollectionCreate ==
    \E plan \in CollectionPlans, fault \in Faults1 :
        Step(CollectionCreateResult(store, plan, fault))

CollectionRead ==
    \E state \in CollectionStates, fault \in Faults1 :
        Step(CollectionReadResult(store, state, fault))

CollectionUpdate ==
    \E u \in CollectionUpdates, fault \in Faults1 :
        Step(CollectionUpdateResult(store, u.plan, u.state, fault))

CollectionDelete ==
    \E state \in CollectionStates, fault \in Faults1 :
        Step(CollectionDeleteResult(store, state, fault))

\* Another client creates a collection without options.
ExternalCreateCollection ==
    \E c \in ManagedCollNames :
        /\ store.collections[CollDB][c] = <<>>
        /\ Step([store |-> [store EXCEPT !.collections[CollDB][c] = <<DefaultSpec>>],
                 call |-> Call("external", "create", CollectionID(CollDB, c),
                               <<>>, <<>>, <<>>, <<>>, "none", NoState)])

\* The store lists a collection name twice (a data-integrity anomaly).
ExternalAnomaly ==
    \E c \in ManagedCollNames :
        /\ Len(store.collections[CollDB][c]) = 1
        /\ Step([store |-> [store EXCEPT !.collections[CollDB][c] = @ \o @],
                 call |-> Call("external", "anomaly", CollectionID(CollDB, c),
                               <<>>, <<>>, <<>>, <<>>, "none", NoState)])

Init ==
    /\ store = EmptyStore
    /\ before = EmptyStore
    /\ last = NoCall
    /\ prev = Summary(NoCall)
    /\ request = <<>>

NextDatabase ==
    \/ DatabaseCreate
    \/ DatabaseRead
    \/ DatabaseUpdate
    \/ DatabaseDelete
    \/ ExternalCreate
    \/ ExternalDrop

SpecDatabase == Init /\ [][NextDatabase]_vars

NextIndex ==
    \/ IndexCreate
    \/ IndexRead
    \/ IndexUpdate
    \/ IndexDelete
    \/ ExternalCreateIndex
    \/ ExternalDropIndex

SpecIndex == Init /\ [][NextIndex]_vars

NextCollection ==
    \/ CollectionCreate
    \/ CollectionRead
    \/ CollectionUpdate
    \/ CollectionDelete
    \/ ExternalCreateCollection
    \/ ExternalAnomaly

SpecCollection == Init /\ [][NextCollection]_vars

\* ImportState of each kind, applied to the identity text of the request.
DatabaseImportState == Step(DatabaseImportResult(store, request))

CollectionImportState == Step(CollectionImportResult(store, request))

IndexImportState == Step(IndexImportResult(store, request))

\* Raw key documents as the store may list them for an index that another
\* client created: up to MaxKeys entries with distinct field names.
MaxKeys == 3

KeyFields == {"a", "b", "loc"}

KeyValues == {Int32(1), Int32(-1), Int64(1), Double(2), Double(-3), Text("2dsphere")}

RawKeyDocs ==
    {doc \in UNION {[1..n -> [Key : KeyFields, Value : KeyValues]] : n \in 1..MaxKeys} :
        \A i, j \in 1..Len(doc) : i # j => doc[i].Key # doc[j].Key}

\* The store holds the first index with one of these key documents.
InitIndexKeys ==
    /\ \E doc \in RawKeyDocs :
            store = [EmptyStore EXCEPT
                        !.indexes[IndexDB][IndexColl][IdxPool[1]] =
                            <<[ExternalIndexSpec EXCEPT !.keys = doc]>>,
                        !.collections[IndexDB][IndexColl] = <<DefaultSpec>>]
    /\ before = EmptyStore
    /\ last = NoCall
    /\ prev = Summary(NoCall)
    /\ request = <<>>

SpecIndexKeys == InitIndexKeys /\ [][IndexRead]_vars

InitIdentity ==
    /\ store = EmptyStore
    /\ before = EmptyStore
    /\ last = NoCall
    /\ prev = Summary(NoCall)
    /\ request \in ImportIDs

NextIdentity ==
    \/ DatabaseImportState
    \/ CollectionImportState
    \/ IndexImportState

SpecIdentity == InitIdentity /\ [][NextIdentity]_vars

\* A Create in two steps, so that another client of the store can act
\* between its existence check and its create command. While the Create is
\* under way, request holds its plan and the store that the check saw.
CreateUnderWay(kind) == Len(request) = 1 /\ request[1].kind = kind

CreateRequest(kind, plan) == <<[kind |-> kind, plan |-> plan, seen |-> store]>>

CreateFinished(result) ==
    /\ store' = result.store
    /\ before' = request[1].seen
    /\ last' = result.call
    /\ prev' = Summary(last)
    /\ request' = <<>>

DatabaseCreateCheck ==
    /\ Len(request) = 0
    /\ \E plan \in DatabasePlans : request' = CreateRequest("database", plan)
    /\ UNCHANGED <<store, before, last, prev>>

DatabaseCreateFinish ==
    /\ CreateUnderWay("database")
    /\ \E fault \in Faults :
            CreateFinished(DatabaseCreateSteps(request[1].seen, store, request[1].plan, fault))

IndexCreateCheck ==
    /\ Len(request) = 0
    /\ \E plan \in IndexPlans : request' = CreateRequest("index", plan)
    /\ UNCHANGED <<store, before, last, prev>>

IndexCreateFinish ==
    /\ CreateUnderWay("index")
    /\ \E fault \in Faults :
            CreateFinished(IndexCreateSteps(request[1].seen, store, request[1].plan, fault))

\* Another client creates the very index that the Create under way is about
\* to create, with the same definition.
ExternalCreateSameIndex ==
    /\ CreateUnderWay("index")
    /\ LET plan == request[1].plan
           db == ValueString(plan.Database)
           coll == ValueString(plan.Collection)
           name == ValueString(plan.Name)
           doc == IndexCreateSteps(EmptyStore, EmptyStore, plan, 0).call.cmds[2].doc
           out == CreateOne(store, db, coll, name, doc.spec, FALSE)
       IN  /\ plan.Partial # StringValue(BadJSON)
           /\ store.indexes[db][coll][name] = <<>>
           /\ out.cmd.err = ""
           /\ Step([store |-> out.store,
                    call |-> Call("external", "createIndexes", IndexID(db, coll, name),
                                  <<>>, <<>>, <<>>, <<>>, "none", NoState)])

NextRace ==
    \/ DatabaseCreateCheck
    \/ DatabaseCreateFinish
    \/ IndexCreateCheck
    \/ IndexCreateFinish
    \/ ExternalCreate
    \/ ExternalCreateSameIndex

SpecRace == Init /\ [][NextRace]_vars

\* The data sources' Read.
DatabaseLookup ==
    \E config \in DatabaseConfigs, fault \in Faults1 :
        Step(DatabaseDataSourceResult(store, config, fault))

CollectionLookup ==
    \E config \in CollectionConfigs, fault \in Faults1 :
        Step(CollectionDataSourceResult(store, config, fault))

IndexLookup ==
    \E config \in IndexConfigs, fault \in Faults1 :
        Step(IndexDataSourceResult(store, config, fault))

NextDataSource ==
    \/ DatabaseLookup
    \/ CollectionLookup
    \/ IndexLookup
    \/ ExternalCreate
    \/ ExternalDrop
    \/ ExternalCreateIndex
    \/ ExternalDropIndex

SpecDataSource == Init /\ [][NextDataSource]_vars

\* One lifecycle call of any kind, against a store that an earlier successful
\* Create left (or the empty store), with the identity text of an import
\* request of up to MaxCallIDLen characters.
MaxCallIDLen == 5

SeedStores ==
    {EmptyStore}
    \cup {DatabaseCreateResult(EmptyStore, p, 0).store : p \in DatabasePlans}
    \cup {CollectionCreateResult(EmptyStore, p, 0).store : p \in CollectionPlans}
    \cup {IndexCreateResult(EmptyStore, p, 0).store : p \in IndexPlans}

InitLifecycle ==
    /\ store \in SeedStores
    /\ before = EmptyStore
    /\ last = NoCall
    /\ prev = Summary(NoCall)
    /\ request \in {id \in ImportIDs : Len(id) <= MaxCallIDLen}
    /\ (store = EmptyStore \/ request = <<>>)

FirstCall == last = NoCall

NextLifecycle ==
    \/ FirstCall /\ DatabaseCreate
    \/ FirstCall /\ DatabaseRead
    \/ FirstCall /\ DatabaseUpdate
    \/ FirstCall /\ DatabaseDelete
    \/ FirstCall /\ CollectionCreate
    \/ FirstCall /\ CollectionRead
    \/ FirstCall /\ CollectionUpdate
    \/ FirstCall /\ CollectionDelete
    \/ FirstCall /\ IndexCreate
    \/ FirstCall /\ IndexRead
    \/ FirstCall /\ IndexUpdate
    \/ FirstCall /\ IndexDelete
    \/ FirstCall /\ DatabaseImportState
    \/ FirstCall /\ CollectionImportState
    \/ FirstCall /\ IndexImportState

SpecLifecycle == InitLifecycle /\ [][NextLifecycle]_vars

\* Two lifecycle calls under way at once. A call is held as a record with
\* its kind, operation, plan and recorded state (<<>> when the operation
\* takes none) and the command of it that the store fails (0: none).
LifecycleCall(kind, op, plan, state, fault) ==
    [kind |-> kind, op |-> op, plan |-> plan, state |-> state, fault |-> fault]

DatabaseCalls ==
    {LifecycleCall("database", "Create", <<p>>, <<>>, f) : p \in DatabasePlans, f \in Faults}
    \cup {LifecycleCall("database", "Read", <<>>, <<s>>, 0) : s \in DatabaseStates}
    \cup {LifecycleCall("database", "Update", <<u.plan>>, <<u.state>>, f) :
            u \in DatabaseUpdatePlans, f \in Faults1}
    \cup {LifecycleCall("database", "Delete", <<>>, <<s>>, f) : s \in DatabaseStates, f \in Faults1}

CollectionCalls ==
    LET plans == PlainPlans \cup HourlyPlans \cup MovedPlans
        states == CollectionStates \cup {WithID(p) : p \in MovedPlans}
    IN  {LifecycleCall("collection", "Create", <<p>>, <<>>, f) : p \in plans, f \in Faults1}
        \cup {LifecycleCall("collection", "Read", <<>>, <<s>>, 0) : s \in states}
        \cup {LifecycleCall("collection", "Update", <<u.plan>>, <<u.state>>, f) :
                u \in UpdateRequests(MovedPlans, states, CollectionRequiresReplace)
                        \cup UpdateRequests(PlainPlans, states, CollectionRequiresReplace),
                f \in Faults1}
        \cup {LifecycleCall("collection", "Delete", <<>>, <<s>>, f) : s \in states, f \in Faults1}

IndexCalls ==
    {LifecycleCall("index", "Create", <<p>>, <<>>, f) : p \in IndexPlans, f \in Faults}
    \cup {LifecycleCall("index", "Read", <<>>, <<s>>, 0) : s \in IndexStates}
    \cup {LifecycleCall("index", "Update", <<u.plan>>, <<u.state>>, 0) : u \in IndexUpdates}
    \cup {LifecycleCall("index", "Delete", <<>>, <<s>>, f) : s \in IndexStates, f \in Faults1}

\* The call c, with the store as its first command saw it (seen) and the
\* store as it is when its last command runs (st). Only the Creates of a
\* database and of an index issue two commands.
RunCall(c, seen, st) ==
    CASE c.kind = "database" /\ c.op = "Create" ->
            DatabaseCreateSteps(seen, st, c.plan[1], c.fault)
      [] c.kind = "database" /\ c.op = "Read" -> DatabaseReadResult(st, c.state[1], c.fault)
      [] c.kind = "database" /\ c.op = "Update" ->
            DatabaseUpdateResult(st, c.plan[1], c.state[1], c.fault)
      [] c.kind = "database" /\ c.op = "Delete" -> DatabaseDeleteResult(st, c.state[1], c.fault)
      [] c.kind = "collection" /\ c.op = "Create" ->
            CollectionCreateResult(st, c.plan[1], c.fault)
      [] c.kind = "collection" /\ c.op = "Read" ->
            CollectionReadResult(st, c.state[1], c.fault)
      [] c.kind = "collection" /\ c.op = "Update" ->
            CollectionUpdateResult(st, c.plan[1], c.state[1], c.fault)
      [] c.kind = "collection" /\ c.op = "Delete" ->
            CollectionDeleteResult(st, c.state[1], c.fault)
      [] c.kind = "index" /\ c.op = "Create" -> IndexCreateSteps(seen, st, c.plan[1], c.fault)
      [] c.kind = "index" /\ c.op = "Read" -> IndexReadResult(st, c.state[1], c.fault)
      [] c.kind = "index" /\ c.op = "Update" -> IndexUpdateResult(st, c.plan[1], c.state[1])
      [] c.kind = "index" /\ c.op = "Delete" -> IndexDeleteResult(st, c.state[1], c.fault)

\* The identity that the call addresses in the store.
CallID(c) == RunCall(c, EmptyStore, EmptyStore).call.id

\* The place of the call's identity in the pools of names: of its index name
\* for an index call, of its database otherwise.
Rank(c) ==
    IF c.kind = "index"
    THEN CHOOSE i \in 1..NumIndexes : IdxPool[i] = CallID(c)[3]
    ELSE CHOOSE i \in 1..NumDatabases : DBPool[i] = CallID(c)[1]

\* Two calls of one kind for different identities, the one of the lower
\* identity first; two index calls address the same collection.
CallPairs ==
    {pair \in (DatabaseCalls \X DatabaseCalls) \cup (CollectionCalls \X CollectionCalls)
                \cup (IndexCalls \X IndexCalls) :
        Rank(pair[1]) < Rank(pair[2])}

\* While the two calls are under way, request holds them, the store they
\* started from, what the first command of each saw, and each one's response
\* once it returned.
PairUnderWay == Len(request) = 1 /\ "first" \in DOMAIN request[1]

BeginPair ==
    /\ Len(request) = 0
    /\ FirstCall
    /\ \E pair \in CallPairs :
            request' = <<[first |-> pair[1], second |-> pair[2], start |-> store,
                          firstSeen |-> <<>>, secondSeen |-> <<>>,
                          firstOut |-> <<>>, secondOut |-> <<>>]>>
    /\ UNCHANGED <<store, before, last, prev>>

FirstCheck ==
    /\ PairUnderWay
    /\ request[1].firstSeen = <<>>
    /\ request' = <<[request[1] EXCEPT !.firstSeen = <<store>>]>>
    /\ UNCHANGED <<store, before, last, prev>>

FirstRun ==
    /\ PairUnderWay
    /\ request[1].firstSeen # <<>>
    /\ request[1].firstOut = <<>>
    /\ LET result == RunCall(request[1].first, request[1].firstSeen[1], store)
       IN  /\ store' = result.store
           /\ before' = store
           /\ last' = result.call
           /\ prev' = Summary(last)
           /\ request' = <<[request[1] EXCEPT !.firstOut = <<result.call>>]>>

SecondCheck ==
    /\ PairUnderWay
    /\ request[1].secondSeen = <<>>
    /\ request' = <<[request[1] EXCEPT !.secondSeen = <<store>>]>>
    /\ UNCHANGED <<store, before, last, prev>>

SecondRun ==
    /\ PairUnderWay
    /\ request[1].secondSeen # <<>>
    /\ request[1].secondOut = <<>>
    /\ LET result == RunCall(request[1].second, request[1].secondSeen[1], store)
       IN  /\ store' = result.store
           /\ before' = store
           /\ last' = result.call
           /\ prev' = Summary(last)
           /\ request' = <<[request[1] EXCEPT !.secondOut = <<result.call>>]>>

\* The stores that one more successful Create of the kind leaves.
StoresAfter(kind, stores) ==
    stores \cup
    CASE kind = "database" ->
            {DatabaseCreateResult(st, p, 0).store : st \in stores, p \in DatabasePlans}
      [] kind = "collection" ->
            {CollectionCreateResult(st, p, 0).store :
                st \in stores, p \in CollectionPlans \cup MovedPlans}
      [] kind = "index" ->
            {IndexCreateResult(st, p, 0).store : st \in stores, p \in IndexPlans}

\* The stores that up to two successful Creates of one kind leave.
PairStores ==
    UNION {StoresAfter(kind, StoresAfter(kind, {EmptyStore})) :
            kind \in {"database", "collection", "index"}}

InitInterleaved ==
    /\ store \in PairStores
    /\ before = EmptyStore
    /\ last = NoCall
    /\ prev = Summary(NoCall)
    /\ request = <<>>

NextInterleaved ==
    \/ BeginPair
    \/ FirstCheck
    \/ FirstRun
    \/ SecondCheck
    \/ SecondRun

SpecInterleaved == InitInterleaved /\ [][NextInterleaved]_vars

Next == NextDatabase \/ NextCollection \/ NextIndex

Spec == Init /\ [][Next]_vars

----------------------------------------------------------------------------
\* Vocabulary of the properties.

IsCall(call, kind, op) == call.kind = kind /\ call.op = op

\* The first command of the call (its list command) returned a result.
Listed(call) == Len(call.cmds) >= 1 /\ call.cmds[1].err = ""

Succeeded(call) == call.errors = <<>>

MutatingCmds ==
    {"create", "drop", "dropDatabase", "createCollection", "dropCollection",
     "collMod", "createIndexes", "dropIndexes"}

IssuedMutation(call) ==
    \E i \in 1..Len(call.cmds) : call.cmds[i].name \in MutatingCmds

----------------------------------------------------------------------------
\* Database driver properties.

\* C3: a Database Create whose existence check went through fails with
\* "already exists" whenever the database holds at least one collection, and
\* then issues no mutating command, leaves the store as it was and writes no
\* recorded state; otherwise it records identity = name.
C3_DatabaseCreateConflict ==
    (IsCall(last, "database", "Create") /\ Listed(last)) =>
        IF CollectionNamesOf(before, last.id[1]) # {}
        THEN /\ last.errors = <<"Database already exists">>
             /\ ~IssuedMutation(last)
             /\ store = before
             /\ last.stateAction = "none"
        ELSE /\ last.stateAction = "set"
             /\ last.state[1].ID = StringValue(last.id[1])
             /\ last.state[1].Name = StringValue(last.id[1])

C3_Witness ==
    /\ IsCall(last, "database", "Create")
    /\ Listed(last)
    /\ CollectionNamesOf(before, last.id[1]) # {}
    /\ last.errors = <<"Database already exists">>

\* C4: a Read right after a successful Create with keep_placeholder = true
\* reports the database present with keep_placeholder = true, and a Read right
\* after a successful Delete reports it absent without an error.
C4_CreateReadDeleteRead ==
    (IsCall(last, "database", "Read") /\ Listed(last) /\ prev.kind = "database"
        /\ prev.id = last.id /\ prev.ok) =>
        /\ (prev.op = "Create" /\ prev.keep) =>
                /\ last.stateAction = "set"
                /\ last.state[1].KeepPlaceholder = BoolValue(TRUE)
        /\ prev.op = "Delete" =>
                /\ last.stateAction = "removed"
                /\ Succeeded(last)

\* C5: a Database Read whose list went through removes the recorded state
\* without an error when the database has no collection, and otherwise
\* writes id = name and keep_placeholder = (the sentinel is listed), whatever
\* keep_placeholder was recorded.
C5_DatabaseRead ==
    (IsCall(last, "database", "Read") /\ Listed(last)) =>
        IF CollectionNamesOf(before, last.id[1]) = {}
        THEN last.stateAction = "removed" /\ Succeeded(last)
        ELSE /\ last.stateAction = "set"
             /\ Succeeded(last)
             /\ last.state[1].ID = StringValue(last.id[1])
             /\ last.state[1].Name = last.req.Name
             /\ last.state[1].KeepPlaceholder =
                    BoolValue(before.collections[last.id[1]][tfPlaceholderColl] # <<>>)

C5_Witness ==
    /\ IsCall(last, "database", "Read")
    /\ Listed(last)
    /\ last.req.KeepPlaceholder = BoolValue(TRUE)
    /\ last.stateAction = "set"
    /\ last.state[1].KeepPlaceholder = BoolValue(FALSE)

\* C8: no lifecycle call reports success after one of its create, drop or
\* modify commands failed (an "already exists" / "not found" outcome of the
\* sentinel toggle aside), and no failed command is issued again.
C8_StoreFailuresSurfaced ==
    \A i \in 1..Len(last.cmds) :
        /\ (last.cmds[i].name \in MutatingCmds /\ last.cmds[i].err = Transient)
                => ~Succeeded(last)
        /\ last.cmds[i].err # "" =>
                \A j \in (i + 1)..Len(last.cmds) : last.cmds[j].name # last.cmds[i].name

----------------------------------------------------------------------------
\* Index driver properties.

\* C1: every Index Create starts with the list of the collection's index
\* specifications; when the list names the desired index, Create fails with
\* "already exists", issues no create-index command, leaves the store's
\* indexes as they were and writes no recorded state.
C1_IndexCreateConflict ==
    IsCall(last, "index", "Create") =>
        /\ Len(last.cmds) >= 1 /\ last.cmds[1].name = "listIndexes"
        /\ (Listed(last) /\ last.id[3] \in IndexNamesOf(before, last.id[1], last.id[2])) =>
                /\ last.errors = <<"Index already exists">>
                /\ ~IssuedMutation(last)
                /\ store.indexes = before.indexes
                /\ store = before
                /\ last.stateAction = "none"

C1_Witness ==
    /\ IsCall(last, "index", "Create")
    /\ Listed(last)
    /\ last.id[3] \in IndexNamesOf(before, last.id[1], last.id[2])
    /\ last.errors = <<"Index already exists">>

\* C2: a Create right after a successful Create of the same index fails with
\* "already exists", and a Read right after a successful Delete of the index
\* removes the recorded state and reports no error.
C2_CreateCreateDeleteRead ==
    (last.kind = "index" /\ Listed(last) /\ prev.kind = "index"
        /\ prev.id = last.id /\ prev.ok) =>
        /\ (last.op = "Create" /\ prev.op = "Create") =>
                last.errors = <<"Index already exists">>
        /\ (last.op = "Read" /\ prev.op = "Delete") =>
                /\ last.stateAction = "removed"
                /\ Succeeded(last)

\* C23: an Index Update issues no store command, leaves the store as it
\* was, reports no error and records the desired record.
C23_IndexUpdatePassThrough ==
    IsCall(last, "index", "Update") =>
        /\ last.cmds = <<>>
        /\ store = before
        /\ Succeeded(last)
        /\ last.stateAction = "set"
        /\ last.state = <<last.req.plan>>

C23_Witness ==
    /\ IsCall(last, "index", "Update")
    /\ last.req.plan # last.req.state
    /\ last.state = <<last.req.plan>>
    /\ IndexNamesOf(store, last.id[1], last.id[2]) # {}

----------------------------------------------------------------------------
\* Collection driver properties.

\* C7: a Collection Read lists the specifications under the exact name; when
\* the list holds none or more than one, Read fails with "Collection not
\* found" and leaves the recorded state alone; with exactly one it records the
\* decoded state.
C7_CollectionReadNotFound ==
    (IsCall(last, "collection", "Read") /\ Listed(last)) =>
        /\ last.cmds[1].name = "listCollections"
        /\ last.cmds[1].target = ValueString(last.req.Name)
        /\ IF Len(before.collections[last.id[1]][last.id[2]]) # 1
           THEN /\ last.errors = <<"Collection not found">>
                /\ last.stateAction = "none"
                /\ last.state = NoState
           ELSE last.stateAction = "set" /\ Succeeded(last)

C7_Witness ==
    /\ IsCall(last, "collection", "Read")
    /\ Listed(last)
    /\ Len(before.collections[last.id[1]][last.id[2]]) > 1
    /\ last.errors = <<"Collection not found">>

\* The fields of the three whose desired text differs from the recorded text.
ChangedFields(plan, state) ==
    {f \in {"validator", "validationLevel", "validationAction"} :
        CASE f = "validator" -> ValueString(plan.Validator) # ValueString(state.Validator)
          [] f = "validationLevel" ->
                ValueString(plan.ValidationLevel) # ValueString(state.ValidationLevel)
          [] f = "validationAction" ->
                ValueString(plan.ValidationAction) # ValueString(state.ValidationAction)}

\* C9: a Collection Update issues at most one command, a collMod holding
\* exactly the fields among validator, validationLevel and validationAction
\* whose desired value differs from the recorded one, each with the desired
\* value; a differing empty validator is sent as an empty document; when
\* nothing differs no command is issued.
C9_CollectionUpdateCommand ==
    IsCall(last, "collection", "Update") =>
        LET changed == ChangedFields(last.req.plan, last.req.state)
        IN  /\ Len(last.cmds) <= 1
            /\ changed = {} => last.cmds = <<>>
            /\ \A i \in 1..Len(last.cmds) :
                LET cmd == last.cmds[i]
                IN  /\ cmd.name = "collMod"
                    /\ cmd.target = ValueString(last.req.plan.Name)
                    /\ DOMAIN cmd.doc = changed
                    /\ "validator" \in changed =>
                          (ValueString(last.req.plan.Validator) = "") = (cmd.doc.validator = EmptyDoc)
                    /\ "validationLevel" \in changed =>
                          cmd.doc.validationLevel = ValueString(last.req.plan.ValidationLevel)
                    /\ "validationAction" \in changed =>
                          cmd.doc.validationAction = ValueString(last.req.plan.ValidationAction)

C9_Witness ==
    /\ IsCall(last, "collection", "Update")
    /\ Len(last.cmds) = 1
    /\ DOMAIN last.cmds[1].doc = {"validator", "validationLevel"}
    /\ last.cmds[1].doc.validator = EmptyDoc
    /\ last.req.state.Validator # StringNull

\* C10: a successful Collection Create issued exactly one command, the
\* create-collection call; a validator that is not valid extended JSON fails
\* the Create before any command is issued; a failed create-collection call
\* fails the Create; and a failed Create leaves the store as it was and writes
\* no recorded state.
C10_CollectionCreate ==
    IsCall(last, "collection", "Create") =>
        /\ Succeeded(last) =>
              /\ Len(last.cmds) = 1
              /\ last.cmds[1].name = "createCollection"
              /\ last.cmds[1].err = ""
              /\ last.stateAction = "set"
        /\ ValueString(last.req.Validator) = BadJSON =>
              /\ last.errors = <<"invalid validator JSON">>
              /\ last.cmds = <<>>
        /\ (\E i \in 1..Len(last.cmds) : last.cmds[i].err # "") =>
              last.errors = <<"create collection failed">>
        /\ ~Succeeded(last) =>
              /\ Len(last.cmds) <= 1
              /\ store = before
              /\ last.stateAction = "none"

C10_Witness ==
    /\ IsCall(last, "collection", "Create")
    /\ ValueString(last.req.Validator) = BadJSON
    /\ last.cmds = <<>>
    /\ ~Succeeded(last)

----------------------------------------------------------------------------
\* Properties of all three drivers.

\* The object a Read looks for is missing from the store.
MissingBefore(call) ==
    CASE call.kind = "database" -> CollectionNamesOf(before, call.id[1]) = {}
      [] call.kind = "collection" -> before.collections[call.id[1]][call.id[2]] = <<>>
      [] call.kind = "index" ->
            call.id[3] \notin IndexNamesOf(before, call.id[1], call.id[2])
      [] OTHER -> FALSE

\* C6: a lifecycle Read of any kind that finds its object missing removes the
\* recorded state and reports no error.
C6_ReadOfMissingIsAbsent ==
    (last.op = "Read" /\ Listed(last) /\ MissingBefore(last)) =>
        last.stateAction = "removed" /\ Succeeded(last)

----------------------------------------------------------------------------
\* Change classification properties.

\* C11: a Collection Update is never called with a desired time-series block
\* that differs from the recorded one (such a change replaces the resource),
\* so the time series recorded by a successful Update is the one the store
\* holds for the collection.
C11_TimeSeriesNeverUpdated ==
    IsCall(last, "collection", "Update") =>
        LET listed == store.collections[last.id[1]][last.id[2]]
        IN  /\ last.req.plan.TimeSeries = last.req.state.TimeSeries
            /\ (Succeeded(last) /\ last.cmds # <<>> /\ Len(listed) = 1
                    /\ listed[1].Options # <<>>) =>
                    last.state[1].TimeSeries = DecodeTimeSeries(listed[1].Options[1])

\* C12: an Index Update is never called with a desired value of database,
\* collection, name, keys, unique, sparse, ttl, partial filter expression or
\* background that differs from the recorded one.
C12_IndexNeverUpdatedInPlace ==
    IsCall(last, "index", "Update") =>
        ChangedAttributes(last.req.plan, last.req.state) \cap
            {"Database", "Collection", "Name", "Keys", "Unique", "Sparse", "TTL",
             "Partial", "Background"} = {}

\* C13: a Database Update is never called with a desired name other than the
\* recorded one, a Collection Update never with a desired database or name
\* other than the recorded ones, and every command of an Update goes to the
\* recorded database (and collection).
C13_UpdateKeepsIdentity ==
    /\ IsCall(last, "database", "Update") =>
            /\ last.req.plan.Name = last.req.state.Name
            /\ \A i \in 1..Len(last.cmds) :
                    last.cmds[i].db = ValueString(last.req.state.Name)
    /\ IsCall(last, "collection", "Update") =>
            /\ last.req.plan.Database = last.req.state.Database
            /\ last.req.plan.Name = last.req.state.Name
            /\ \A i \in 1..Len(last.cmds) :
                    /\ last.cmds[i].db = ValueString(last.req.state.Database)
                    /\ last.cmds[i].target = ValueString(last.req.state.Name)

----------------------------------------------------------------------------
\* Identity codec properties.

HasSlash(t) == \E i \in 1..Len(t) : t[i] = "/"

\* A non-empty text without "/".
IsPart(t) == Len(t) > 0 /\ ~HasSlash(t)

\* The text starts or ends with white space.
OuterSpace(t) == Len(t) > 0 /\ (t[1] = " " \/ t[Len(t)] = " ")

\* The import of the text succeeded and seeded exactly these identity fields.
Seeded(call, fields) ==
    /\ Succeeded(call)
    /\ call.stateAction = "set"
    /\ \A f \in DOMAIN fields : call.state[1][f] = StringValue(fields[f])

\* Whenever the imported text is the identity that Create and Read record
\* for some parts (non-empty, without "/"), the import seeds those parts.
RoundTrip(call, text) ==
    /\ (IsCall(call, "database", "Import") /\ IsPart(text)
            /\ text = DatabaseIDText(text)) =>
            Seeded(call, [ID |-> text, Name |-> text])
    /\ IsCall(call, "collection", "Import") =>
            \A i \in 1..Len(text) :
                LET d == SubSeq(text, 1, i - 1)
                    n == SubSeq(text, i + 1, Len(text))
                IN  (IsPart(d) /\ IsPart(n) /\ text = CollectionIDText(d, n)) =>
                        Seeded(call, [ID |-> text, Database |-> d, Name |-> n])
    /\ IsCall(call, "index", "Import") =>
            \A i, j \in 1..Len(text) :
                LET d == SubSeq(text, 1, i - 1)
                    c == SubSeq(text, i + 1, j - 1)
                    n == SubSeq(text, j + 1, Len(text))
                IN  (i < j /\ IsPart(d) /\ IsPart(c) /\ IsPart(n)
                        /\ text = IndexIDText(d, c, n)) =>
                        Seeded(call, [ID |-> text, Database |-> d, Collection |-> c,
                                      Name |-> n])

\* C14 as stated: for all non-empty parts without "/", importing the identity
\* text that Create and Read record for them yields exactly those parts, for
\* each of the shapes name, database/name and database/collection/name.
C14_RoundTripAnyParts == RoundTrip(last, request)

\* C14: for all non-empty parts without "/" whose identity text neither
\* starts nor ends with white space, importing the identity text that Create
\* and Read record for them yields exactly those parts, for each of the shapes
\* name, database/name and database/collection/name.
C14_IdentityRoundTrip == ~OuterSpace(request) => RoundTrip(last, request)

C14_Witness ==
    /\ IsCall(last, "index", "Import")
    /\ ~OuterSpace(request)
    /\ \E i \in 1..Len(request) : request[i] = " "
    /\ \E i, j \in 1..Len(request) :
            /\ i < j
            /\ IsPart(SubSeq(request, 1, i - 1))
            /\ IsPart(SubSeq(request, i + 1, j - 1))
            /\ IsPart(SubSeq(request, j + 1, Len(request)))
            /\ request[i] = "/" /\ request[j] = "/"
    /\ last.stateAction = "set"

\* The number of "/" in the text.
Slashes(t) == Cardinality({i \in 1..Len(t) : t[i] = "/"})

\* The text has an empty segment: it starts or ends with "/" or holds "//".
EmptySegment(t) ==
    \/ Len(t) = 0
    \/ t[1] = "/"
    \/ t[Len(t)] = "/"
    \/ \E i \in 1..(Len(t) - 1) : t[i] = "/" /\ t[i + 1] = "/"

\* C15: an Import fails and seeds no recorded state when the trimmed text is
\* empty, when it does not hold exactly one "/" (collection) or exactly two
\* (index), or when one of its segments is empty.
C15_ImportRejectsMalformed ==
    LET id == TrimSpace(request)
        rejected == ~Succeeded(last) /\ last.stateAction = "none"
    IN  /\ (last.op = "Import" /\ EmptySegment(id)) => rejected
        /\ (IsCall(last, "collection", "Import") /\ Slashes(id) # 1) => rejected
        /\ (IsCall(last, "index", "Import") /\ Slashes(id) # 2) => rejected

\* C16: an Import issues no store command and leaves the store alone; when
\* it accepts the text, the recorded id is the text without its surrounding
\* white space, the identity fields are non-empty and joined by "/" give the
\* id, and every other field is null.
C16_ImportSeedsState ==
    last.op = "Import" =>
        /\ last.cmds = <<>>
        /\ store = before
        /\ last.stateAction = "set" =>
            LET state == last.state[1]
                id == state.ID[1]
                others == DOMAIN state \ {"ID", "Database", "Collection", "Name"}
            IN  /\ Succeeded(last)
                /\ ~OuterSpace(id) /\ Len(id) > 0
                /\ \E i, j \in 1..Len(request) :
                        /\ id = SubSeq(request, i, j)
                        /\ \A k \in 1..Len(request) : (k < i \/ k > j) => request[k] = " "
                /\ \A f \in DOMAIN state \ others : Len(state[f]) = 1 /\ Len(state[f][1]) > 0
                /\ \A f \in others : state[f] = <<>>
                /\ last.kind = "database" => id = DatabaseIDText(state.Name[1])
                /\ last.kind = "collection" =>
                        /\ id = CollectionIDText(state.Database[1], state.Name[1])
                        /\ IsPart(state.Database[1])
                /\ last.kind = "index" =>
                        /\ id = IndexIDText(state.Database[1], state.Collection[1],
                                            state.Name[1])
                        /\ IsPart(state.Database[1])
                        /\ IsPart(state.Collection[1])

C16_Witness ==
    /\ IsCall(last, "collection", "Import")
    /\ OuterSpace(request)
    /\ last.stateAction = "set"
    /\ last.state[1].ID[1] # request

----------------------------------------------------------------------------
\* Key decoding properties.

\* The raw key document of the index that the call read, as the store held it.
RawKeysBefore(call) ==
    before.indexes[call.id[1]][call.id[2]][call.id[3]][1].keys

\* An Index Read that found its index.
ReadFound(call) ==
    /\ IsCall(call, "index", "Read")
    /\ Listed(call)
    /\ call.id[3] \in IndexNamesOf(before, call.id[1], call.id[2])

IsNumeric(entry) == entry.Value.type \in {"int32", "int64", "double"}

IsNotNumeric(entry) == ~IsNumeric(entry)

\* The direction a numeric value stands for: the value itself for an
\* integer, the whole part for a floating-point value.
Direction(value) ==
    IF value.type = "double"
    THEN (IF value.v >= 0 THEN 1 ELSE -1)
            * (CHOOSE n \in 0..4 : 2 * n <= value.v * (IF value.v >= 0 THEN 1 ELSE -1)
                                    /\ value.v * (IF value.v >= 0 THEN 1 ELSE -1) < 2 * n + 2)
    ELSE value.v

\* C17: the keys that an Index Read records are exactly the entries of the
\* raw key document with an int32, int64 or double value, in the order of
\* the document, each with its value as a signed integer direction.
C17_KeyOrderDecoding ==
    ReadFound(last) =>
        LET numeric == SelectSeq(RawKeysBefore(last), IsNumeric)
            keys == last.state[1].Keys
        IN  /\ last.stateAction = "set"
            /\ Len(keys) = Len(numeric)
            /\ \A i \in 1..Len(numeric) :
                    /\ keys[i].Field = numeric[i].Key
                    /\ keys[i].Order = Direction(numeric[i].Value)

C17_Witness ==
    /\ ReadFound(last)
    /\ Len(last.state[1].Keys) = 2
    /\ Len(RawKeysBefore(last)) = 3
    /\ RawKeysBefore(last)[1].Value = Double(-3)
    /\ RawKeysBefore(last)[3].Value = Int32(1)
    /\ last.state[1].Keys[1].Order = -1

\* C18: an Index Read that found its index succeeds, records the numeric
\* entries only, and carries one warning for each other entry, naming its
\* field, so that keys and warnings together count the raw entries.
C18_TolerantDecode ==
    ReadFound(last) =>
        LET skipped == SelectSeq(RawKeysBefore(last), IsNotNumeric)
            keys == last.state[1].Keys
        IN  /\ Succeeded(last)
            /\ last.stateAction = "set"
            /\ Len(last.warnings) = Len(skipped)
            /\ \A i \in 1..Len(skipped) :
                    /\ last.warnings[i].field = skipped[i].Key
                    /\ \A k \in 1..Len(keys) : keys[k].Field # skipped[i].Key
            /\ Len(keys) + Len(last.warnings) = Len(RawKeysBefore(last))

C18_Witness ==
    /\ ReadFound(last)
    /\ Len(RawKeysBefore(last)) = 2
    /\ RawKeysBefore(last)[2] = [Key |-> "loc", Value |-> Text("2dsphere")]
    /\ Len(last.state[1].Keys) = 1
    /\ Len(last.warnings) = 1
    /\ last.warnings[1].field = "loc"

----------------------------------------------------------------------------
\* Validator round trip.

\* The validator text that a Read with the given recorded state decodes from
\* the store.
ReadBackValidator(st, state) ==
    CollectionReadResult(st, state, 0).call.state[1].Validator

\* C19: right after a successful Create with a validator text, a Read records
\* that same text; and a Create with the text read back, followed by a Read,
\* records the text read back.
C19_ValidatorRoundTrip ==
    (IsCall(last, "collection", "Create") /\ Succeeded(last)
        /\ ValueString(last.req.Validator) # "") =>
        LET readBack == ReadBackValidator(store, last.state[1])
            again == CollectionCreateResult(before, [last.req EXCEPT !.Validator = readBack], 0)
        IN  /\ readBack = last.req.Validator
            /\ Succeeded(again.call)
            /\ ReadBackValidator(again.store, again.call.state[1]) = readBack

----------------------------------------------------------------------------
\* Check-then-create race.

\* The object of the Create was missing when the Create checked for it, and
\* the step right before the Create's command was another client creating it.
Raced(call) ==
    /\ call.op = "Create"
    /\ Listed(call)
    /\ prev.kind = "external"
    /\ \/ /\ call.kind = "database"
          /\ prev.op = "create"
          /\ prev.id[1] = call.id[1]
          /\ CollectionNamesOf(before, call.id[1]) = {}
       \/ /\ call.kind = "index"
          /\ prev.op = "createIndexes"
          /\ prev.id = call.id
          /\ call.id[3] \notin IndexNamesOf(before, call.id[1], call.id[2])

\* C20: a Database or Index Create whose object another client created
\* between the existence check and the create command ends with an error and
\* records no state.
C20_RaceSurfaced ==
    Raced(last) => (~Succeeded(last) /\ last.stateAction = "none")

----------------------------------------------------------------------------
\* Reads and the recorded state they start from.

\* The two records name the same resource.
SameIdentity(s, t) ==
    \A f \in DOMAIN s \cap {"Database", "Collection", "Name"} : s[f] = t[f]

\* C21: the state that a Read records depends on the identity fields and the
\* store only: a Read of the same identity against the same store, started
\* from any other recorded state, records the same state.
C21_ReadIgnoresRecordedFields ==
    (last.op = "Read" /\ last.stateAction = "set") =>
        /\ last.kind = "database" =>
                \A s \in DatabaseStates : SameIdentity(s, last.req) =>
                    DatabaseReadResult(before, s, 0).call.state = last.state
        /\ last.kind = "collection" =>
                \A s \in CollectionStates : SameIdentity(s, last.req) =>
                    CollectionReadResult(before, s, 0).call.state = last.state
        /\ last.kind = "index" =>
                \A s \in IndexStates : SameIdentity(s, last.req) =>
                    IndexReadResult(before, s, 0).call.state = last.state

----------------------------------------------------------------------------
\* Data sources.

\* The lifecycle Read of the same kind, for the same identity and store,
\* started from any recorded state, reports the resource absent: no error,
\* recorded state removed.
ReadSaysAbsent(call) ==
    LET absent(read) == Succeeded(read) /\ read.stateAction = "removed"
    IN  CASE call.kind = "database" ->
                \A s \in DatabaseStates : SameIdentity(s, call.req) =>
                    absent(DatabaseReadResult(before, s, 0).call)
          [] call.kind = "collection" ->
                \A s \in CollectionStates : SameIdentity(s, call.req) =>
                    absent(CollectionReadResult(before, s, 0).call)
          [] call.kind = "index" ->
                \A s \in IndexStates : SameIdentity(s, call.req) =>
                    absent(IndexReadResult(before, s, 0).call)

\* C24: a data source's Read of an object missing from the store reports an
\* error and sets no state, whereas the lifecycle Read of the same kind
\* reports the object absent without an error.
C24_LookupOfMissingFails ==
    (last.op = "Lookup" /\ Listed(last) /\ MissingBefore(last)) =>
        /\ ~Succeeded(last)
        /\ last.stateAction = "none"
        /\ last.state = NoState
        /\ ReadSaysAbsent(last)

----------------------------------------------------------------------------
\* Properties of every lifecycle call.

ListCmds == {"listDatabases", "listCollections", "listIndexes"}

IsLifecycle(call) == call.kind \in {"database", "collection", "index"}

\* C25: every lifecycle call issues at most two store commands; when it
\* issues two, the first is a list and the second a mutation, so no command
\* is issued twice; and the only command that may have failed is the last
\* one: nothing is issued after a failure (no rollback, no retry).
C25_BoundedCommands ==
    IsLifecycle(last) =>
        /\ Len(last.cmds) <= 2
        /\ \A i \in 1..Len(last.cmds) :
                last.cmds[i].name \in ListCmds \cup MutatingCmds
        /\ Len(last.cmds) = 2 =>
                /\ last.cmds[1].name \in ListCmds
                /\ last.cmds[2].name \in MutatingCmds
        /\ \A i \in 1..Len(last.cmds) :
                last.cmds[i].err # "" => i = Len(last.cmds)

\* An index Delete whose drop command failed: it was the only command.
C25_Witness ==
    /\ IsCall(last, "index", "Delete")
    /\ Len(last.cmds) = 1
    /\ last.cmds[1].err # ""

\* C26: a Collection Create whose plan has a timeSeries without a time
\* field reports an error without issuing any command; and a create
\* command carries the collection-level expire option exactly when the plan
\* has a timeSeries with a TTL.
C26_TimeFieldRequired ==
    IsCall(last, "collection", "Create") =>
        LET ts == last.req.TimeSeries
        IN  /\ (ts # NoTimeSeries /\ ValueString(ts[1].TimeField) = "") =>
                    /\ ~Succeeded(last)
                    /\ last.cmds = <<>>
                    /\ last.stateAction = "none"
            /\ \A i \in 1..Len(last.cmds) :
                    /\ ts = NoTimeSeries => last.cmds[i].doc.expireAfterSeconds = <<>>
                    /\ ts # NoTimeSeries =>
                            last.cmds[i].doc.expireAfterSeconds = ts[1].ExpireAfterSeconds

\* C27: a Create or Update that reports an error writes no recorded state,
\* and one that writes recorded state reported no error and saw every store
\* command it issued succeed.
C27_StateOnlyOnSuccess ==
    (IsLifecycle(last) /\ last.op \in {"Create", "Update"}) =>
        /\ ~Succeeded(last) => last.stateAction = "none" /\ last.state = NoState
        /\ last.stateAction = "set" =>
                /\ Succeeded(last)
                /\ \A i \in 1..Len(last.cmds) : last.cmds[i].err = ""

\* C28: a Database Create without placeholder, on a database that does not
\* exist and whose existence check went through, issues no mutating command,
\* leaves the store as it was and records the resource with id = name; the
\* Read of that database that follows it directly, once its list went
\* through, removes the recorded state without an error.
C28_CreateWithoutPlaceholder ==
    /\ (IsCall(last, "database", "Create") /\ Listed(last) /\ MissingBefore(last)
            /\ ~ValueBool(last.req.KeepPlaceholder)) =>
            /\ ~IssuedMutation(last)
            /\ store = before
            /\ Succeeded(last)
            /\ last.stateAction = "set"
            /\ last.state[1].ID = last.req.Name
            /\ last.state[1].Name = last.req.Name
    /\ (IsCall(last, "database", "Read") /\ Listed(last)
            /\ prev.kind = "database" /\ prev.op = "Create" /\ prev.id = last.id
            /\ prev.ok /\ ~prev.keep) =>
            /\ last.stateAction = "removed"
            /\ Succeeded(last)

C28_Witness ==
    /\ IsCall(last, "database", "Read")
    /\ Listed(last)
    /\ prev.kind = "database" /\ prev.op = "Create" /\ prev.id = last.id
    /\ prev.ok /\ ~prev.keep
    /\ last.stateAction = "removed"

\* The validator document that the store holds for a collection.
StoredValidator(st, db, name) == st.collections[db][name][1].Options[1].validator

\* C29: after a successful Update that changed the validator of a collection
\* to a non-empty text v, the store holds the validator document that a
\* Create with the same plan leaves (the parsed text under $jsonSchema), and
\* a Read records the same validator text in both cases.
C29_UpdateWritesAsCreate ==
    (IsCall(last, "collection", "Update") /\ Succeeded(last)
        /\ ValueString(last.req.plan.Validator) # ""
        /\ Differs(last.req.plan.Validator, last.req.state.Validator)) =>
        LET plan == last.req.plan
            db == ValueString(plan.Database)
            name == ValueString(plan.Name)
            created == CollectionCreateResult(EmptyStore, plan, 0)
        IN  /\ Succeeded(created.call)
            /\ StoredValidator(store, db, name) = StoredValidator(created.store, db, name)
            /\ StoredValidator(store, db, name) =
                    <<JSONSchemaWrapper(UnmarshalExtJSON(ValueString(plan.Validator))[1])>>
            /\ ReadBackValidator(store, plan) = ReadBackValidator(created.store, plan)

----------------------------------------------------------------------------
\* Calls for different identities under way at once.

PairDone ==
    /\ PairUnderWay
    /\ request[1].firstOut # <<>>
    /\ request[1].secondOut # <<>>

\* Call a, and after it has returned call b, from the store start.
Sequential(a, b, start) ==
    LET ra == RunCall(a, start, start)
        rb == RunCall(b, ra.store, ra.store)
    IN  [store |-> rb.store, one |-> ra.call, other |-> rb.call]

\* However the commands of the two calls were interleaved, the store and
\* the two responses are those of running the first call and then the
\* second, and those of running the second and then the first.
AsSequential ==
    LET r == request[1]
        ab == Sequential(r.first, r.second, r.start)
        ba == Sequential(r.second, r.first, r.start)
    IN  /\ store = ab.store
        /\ store = ba.store
        /\ r.firstOut[1] = ab.one
        /\ r.firstOut[1] = ba.other
        /\ r.secondOut[1] = ab.other
        /\ r.secondOut[1] = ba.one

IndexKeysOf(c, st) ==
    LET id == CallID(c)
        held == st.indexes[id[1]][id[2]][id[3]]
    IN  (IF c.op = "Create" THEN {PlanKeys(c.plan[1].Keys)} ELSE {})
        \cup (IF held # <<>> THEN {held[1].keys} ELSE {})

KeysApart ==
    request[1].first.kind = "index" =>
        IndexKeysOf(request[1].first, request[1].start)
            \cap IndexKeysOf(request[1].second, request[1].start) = {}

====
